---- MODULE Spec2Model ----
(***************************************************************************)
(* The knowledge-test routes (routes/knowledgeTests.js, kept here as       *)
(* src/unnamed/part_001): list, create, get, submit and justify handlers   *)
(* over one JSON file, knowledge_tests.json.  Every handler is an async    *)
(* function; the event loop runs it without interruption from one await to *)
(* the next, so each action below is the code between two awaits.          *)
(***************************************************************************)
EXTENDS Integers, Sequences, FiniteSets, TLC

VARIABLES file, now, pc, req, data, loc, resp, prior,
          GOOGLE_API_KEY, cachedModel, cachedSupportsGenerateContent,
          modelListAttempted, dataDir

\* The state of routes/agent.js (the key and the model cache) and the JSON
\* files of index.js and routes/rooms.js in the data directory.
server ==
    <<GOOGLE_API_KEY, cachedModel, cachedSupportsGenerateContent,
      modelListAttempted, dataDir>>

vars ==
    <<file, now, pc, req, data, loc, resp, prior, GOOGLE_API_KEY, cachedModel,
      cachedSupportsGenerateContent, modelListAttempted, dataDir>>

(***************************************************************************)
(* Bounds of the model.                                                    *)
(***************************************************************************)
MaxReq == 3
MaxSeqReq == 3
MaxClock == 1
MaxRand == 2
MaxScoreQuestions == 40
MaxQuestions == 2
MaxAnswers == 2


(***************************************************************************)
(* JavaScript values that the handlers test with typeof.  A value is a     *)
(* record [t, v]: t is what typeof distinguishes, v the number.  JInf is   *)
(* the non-finite number JSON.parse gives for a literal such as 1e999.     *)
(***************************************************************************)
JNum(n) == [t |-> "number", v |-> n]
JInf == [t |-> "number", v |-> 2147483647]
JNull == [t |-> "null", v |-> 0]
JUndef == [t |-> "undefined", v |-> 0]
JStr == [t |-> "string", v |-> 0]

IsNumber(x) == x.t = "number"

\* JSON.stringify followed by JSON.parse, on one value: a non-finite number
\* is written as null; undefined does not occur inside the stored arrays.
JsonValue(x) == IF x = JInf THEN JNull ELSE x

Min(a, b) == IF a < b THEN a ELSE b
Max(a, b) == IF a > b THEN a ELSE b

\* The request slots: handler h serves the h-th request received.
Reqs == 1..Max(MaxReq, MaxSeqReq)

(***************************************************************************)
(* Math.round((correctCount / Math.max(1, questions.length)) * 100) is     *)
(* computed in IEEE-754 double precision: the quotient is rounded to 53    *)
(* bits (nearest, ties to even), the product by 100 is rounded again, and  *)
(* Math.round takes floor(y + 1/2) of the double y.  A 53-bit significand  *)
(* is held as five digits, most significant first: a leading digit and     *)
(* four digits in base 2^13.                                               *)
(***************************************************************************)
RECURSIVE Pow2(_)
Pow2(k) == IF k = 0 THEN 1 ELSE 2 * Pow2(k - 1)

Digit == Pow2(13)

\* m with k added at digit i, the carry running towards the leading digit.
RECURSIVE Carry(_, _, _)
Carry(m, i, k) ==
    IF k = 0 THEN m
    ELSE IF i = 1 THEN [m EXCEPT ![1] = m[1] + k]
    ELSE LET s == m[i] + k
         IN Carry([m EXCEPT ![i] = s % Digit], i - 1, s \div Digit)

\* m * f for a small factor f, from digit i down to the leading digit.
RECURSIVE MulStep(_, _, _, _)
MulStep(m, i, f, carry) ==
    IF i = 1 THEN [m EXCEPT ![1] = m[1] * f + carry]
    ELSE LET s == m[i] * f + carry
         IN MulStep([m EXCEPT ![i] = s % Digit], i - 1, f, s \div Digit)

\* The binary exponent of c / d: the e with 2^(-e) <= c/d < 2^(1-e).
RECURSIVE ExpDown(_, _, _)
ExpDown(c, d, e) == IF c * Pow2(e) >= d THEN e ELSE ExpDown(c, d, e + 1)
RECURSIVE ExpUp(_, _, _)
ExpUp(c, d, s) == IF c < d * Pow2(s + 1) THEN s ELSE ExpUp(c, d, s + 1)

\* The double nearest to c / d (c, d > 0), as [e, m]: its value is
\* m * 2^(-e-52).  Long division gives the 52 bits after the leading one.
FloatDiv(c, d) ==
    LET up == c >= d
        s  == IF up THEN ExpUp(c, d, 0) ELSE 0
        e  == IF up THEN 0 - s ELSE ExpDown(c, d, 1)
        nn == IF up THEN c ELSE c * Pow2(e)
        dd == IF up THEN d * Pow2(s) ELSE d
        r0 == nn - dd
        d1 == (r0 * Digit) \div dd
        r1 == (r0 * Digit) % dd
        d2 == (r1 * Digit) \div dd
        r2 == (r1 * Digit) % dd
        d3 == (r2 * Digit) \div dd
        r3 == (r2 * Digit) % dd
        d4 == (r3 * Digit) \div dd
        r4 == (r3 * Digit) % dd
        m  == <<1, d1, d2, d3, d4>>
        roundUp == 2 * r4 > dd \/ (2 * r4 = dd /\ d4 % 2 = 1)
    IN [e |-> e, m |-> IF roundUp THEN Carry(m, 5, 1) ELSE m]

\* The double nearest to x * 100: the exact product has 59 or 60 bits, of
\* which the low 6 or 7 are rounded away.  Same exponent convention.
FloatTimes100(x) ==
    LET p    == MulStep(x.m, 5, 100, 0)
        k    == IF p[1] < 128 THEN 6 ELSE 7
        low  == p[5] % Pow2(k)
        half == Pow2(k - 1)
        odd  == (p[5] \div Pow2(k)) % 2 = 1
        p0   == [p EXCEPT ![5] = p[5] - low]
    IN [e |-> x.e,
        m |-> IF low > half \/ (low = half /\ odd) THEN Carry(p0, 5, Pow2(k)) ELSE p0]

\* Math.round(y) = floor(y + 1/2) for the double y = m * 2^(-e-52).
MathRound(y) ==
    IF y.e >= 1
    THEN (y.m[1] \div Pow2(y.e))
         + (IF y.m[1] % Pow2(y.e) >= Pow2(y.e - 1) THEN 1 ELSE 0)
    ELSE LET q == MulStep(y.m, 5, Pow2(0 - y.e), 0)
         IN q[1] + (IF q[2] >= Digit \div 2 THEN 1 ELSE 0)

\* A score that is not divided by the number of questions.
ScoreUndivided(correctCount, n) == correctCount * 100

\* const score = Math.round((correctCount / Math.max(1, questions.length)) * 100)
Score(correctCount, n) ==
    IF correctCount = 0 THEN 0
    ELSE MathRound(FloatTimes100(FloatDiv(correctCount, Max(1, n))))

(***************************************************************************)
(* The stored document.  A Test is [id, name, createdAt, sourceText,       *)
(* questions, results]; a Question is [id, prompt, choices, correctIndex]; *)
(* a Submission is [id, userId, timestamp, score, answers].  A test id     *)
(* `test_${Date.now()}_${random}` is the pair <<ms, random>>; a question   *)
(* id is a string, written <<tag, a, b>>: <<"q", k, 0>> for a supplied     *)
(* "qk" and <<"f", ms, i>> for the fallback `q_${ms}_${i}`.                *)
(***************************************************************************)
NoId == <<"", 0, 0>>
UnknownTestId == <<0 - 1, 0>>

\* JSON.stringify(data) followed by JSON.parse(raw): what a handler reads
\* back from the file after another handler wrote `tests`.
JsonQuestion(q) == [q EXCEPT !.correctIndex = JsonValue(q.correctIndex)]
JsonAnswer(a) == [a EXCEPT !.selectedIndex = JsonValue(a.selectedIndex),
                           !.correctIndex = JsonValue(a.correctIndex)]
JsonSubmission(sub) ==
    [sub EXCEPT !.answers = [i \in DOMAIN sub.answers |-> JsonAnswer(sub.answers[i])]]
JsonTest(t) ==
    [t EXCEPT !.questions = [i \in DOMAIN t.questions |-> JsonQuestion(t.questions[i])],
              !.results = [i \in DOMAIN t.results |-> JsonSubmission(t.results[i])]]
JsonTests(tests) == [i \in DOMAIN tests |-> JsonTest(tests[i])]

\* (data.tests || []).find((t) => String(t.id) === String(id)): the index of
\* the first test with that id, 0 when there is none.
FindTest(tests, id) ==
    LET hits == {i \in DOMAIN tests : tests[i].id = id}
    IN IF hits = {} THEN 0 ELSE CHOOSE i \in hits : \A j \in hits : i <= j

(***************************************************************************)
(* Normalization of the generator's items (create handler).  An item is    *)
(* [id, prompt, question, choices, options, correctIndex]: id is NoId and  *)
(* prompt/question are "" when missing or falsy; choices/options are       *)
(* [present, v]; correctIndex is a JavaScript value.                       *)
(***************************************************************************)
\* A normalization that replaces an index outside the choices by 0.
NormalizeQuestionClamped(q, i, ms) ==
    LET choices == IF q.choices.present THEN q.choices.v
                   ELSE IF q.options.present THEN q.options.v ELSE <<>>
        inRange == /\ IsNumber(q.correctIndex)
                   /\ 0 <= q.correctIndex.v /\ q.correctIndex.v < Len(choices)
    IN [id |-> IF q.id # NoId THEN q.id ELSE <<"f", ms, i>>,
        prompt |-> IF q.prompt # "" THEN q.prompt ELSE q.question,
        choices |-> choices,
        correctIndex |-> IF inRange THEN q.correctIndex ELSE JNum(0)]

NormalizeQuestion(q, i, ms) ==
    [id |-> IF q.id # NoId THEN q.id ELSE <<"f", ms, i>>,
     prompt |-> IF q.prompt # "" THEN q.prompt ELSE q.question,
     choices |-> IF q.choices.present THEN q.choices.v
                 ELSE IF q.options.present THEN q.options.v ELSE <<>>,
     correctIndex |-> IF IsNumber(q.correctIndex) THEN q.correctIndex ELSE JNum(0)]

\* A normalization that drops the items without a number as correctIndex.
NormalizeQuestionsDropping(items, ms) ==
    LET HasIndex(q) == IsNumber(q.correctIndex)
        kept == SelectSeq(items, HasIndex)
    IN [i \in DOMAIN kept |-> NormalizeQuestion(kept[i], i - 1, ms)]

\* parsed.questions.map((q, i) => ...): i counts from 0.
NormalizeQuestions(items, ms) ==
    [i \in DOMAIN items |-> NormalizeQuestion(items[i], i - 1, ms)]

(***************************************************************************)
(* Grading (submit handler).  The caller's answers are a sequence of       *)
(* entries [qId, selectedIndex, correct]; `correct` ("absent", "true",     *)
(* "false") and the body's `score` are fields a caller may add.            *)
(***************************************************************************)
\* answersMap[q.id] after the reduce: the selectedIndex of the last entry
\* with that qId, undefined when there is none.
AnswersMap(answers, qid) ==
    LET hits == {i \in DOMAIN answers : answers[i].qId = qid}
    IN IF hits = {} THEN JUndef
       ELSE answers[CHOOSE i \in hits : \A j \in hits : i >= j].selectedIndex

\* A grader that believes an entry's own `correct` field.
GradeQuestionTrusting(q, answers) ==
    LET hits == {i \in DOMAIN answers : answers[i].qId = q.id}
        inMap == AnswersMap(answers, q.id)
        selected == IF IsNumber(inMap) THEN inMap ELSE JNum(0 - 1)
        correctIndex == IF IsNumber(q.correctIndex) THEN q.correctIndex ELSE JNum(0)
    IN [qId |-> q.id,
        prompt |-> q.prompt,
        selectedIndex |-> selected,
        correctIndex |-> correctIndex,
        correct |-> \/ selected = correctIndex
                    \/ \E i \in hits : answers[i].correct = "true"]

GradeQuestion(q, answers) ==
    LET inMap == AnswersMap(answers, q.id)
        selected == IF IsNumber(inMap) THEN inMap ELSE JNum(0 - 1)
        correctIndex == IF IsNumber(q.correctIndex) THEN q.correctIndex ELSE JNum(0)
    IN [qId |-> q.id,
        prompt |-> q.prompt,
        selectedIndex |-> selected,
        correctIndex |-> correctIndex,
        correct |-> selected = correctIndex]

\* A grader that walks the caller's entries instead of the test's questions.
ResultAnswersPerEntry(test, body) ==
    [i \in DOMAIN body.answers |->
        LET hits == {j \in DOMAIN test.questions :
                        test.questions[j].id = body.answers[i].qId}
            q == IF hits = {} THEN [id |-> body.answers[i].qId, prompt |-> "",
                                    choices |-> <<>>, correctIndex |-> JNum(0)]
                 ELSE test.questions[CHOOSE j \in hits : TRUE]
        IN GradeQuestion(q, <<body.answers[i]>>)]

\* A grader that keeps a question correct once an earlier stored submission
\* of the test had it correct.
ResultAnswersCarriedOver(test, body) ==
    [i \in DOMAIN test.questions |->
        LET r == GradeQuestion(test.questions[i], body.answers)
        IN [r EXCEPT !.correct =
                r.correct \/ \E j \in DOMAIN test.results : test.results[j].answers[i].correct]]

\* const resultAnswers = questions.map((q) => ...)
ResultAnswers(test, body) ==
    [i \in DOMAIN test.questions |-> GradeQuestion(test.questions[i], body.answers)]

\* resultAnswers.filter((r) => r.correct).length
CorrectCount(resultAnswers) ==
    Cardinality({i \in DOMAIN resultAnswers : resultAnswers[i].correct})

MakeSubmission(test, body, ms, rnd) ==
    LET resultAnswers == ResultAnswers(test, body)
    IN [id |-> <<ms, rnd>>,
        userId |-> body.userId,
        timestamp |-> ms,
        score |-> Score(CorrectCount(resultAnswers), Len(test.questions)),
        answers |-> resultAnswers]

\* A store that keeps only the latest submission of a test.
PushSubmissionOverwriting(tests, k, sub) ==
    [tests EXCEPT ![k].results = <<sub>>]

\* test.results.push(submission) on the test found in data.tests.
PushSubmission(tests, k, sub) ==
    [tests EXCEPT ![k].results = Append(tests[k].results, sub)]

MakeTest(id, name, text, questions, ms) ==
    [id |-> id, name |-> name, createdAt |-> ms, sourceText |-> text,
     questions |-> questions, results |-> <<>>]

(***************************************************************************)
(* Requests, generator outputs and responses.                              *)
(*   req[h]   the request handler h serves: [kind, id, name, text, body,   *)
(*            qIds, notes]; body is [userId, answers, score, isArray],     *)
(*            qIds is [isList, v], name/text "" stand for missing/empty.   *)
(*   A generator output is [ok, text]: ok is FALSE when axios.post throws  *)
(*   (HTTP error, timeout); text is the returned text as a sequence of     *)
(*   tokens [t, key, items]: "fence" (a ``` or ```json marker), "prose"    *)
(*   (text without brackets), "{" (an object opening with the property     *)
(*   `key`), "}", "[", "]" and "items" (the comma-separated item objects    *)
(*   of an array, brackets inside them balanced).                          *)
(***************************************************************************)
NoBody == [userId |-> "", answers |-> <<>>, score |-> 0 - 1, isArray |-> TRUE]
NoQIds == [isList |-> FALSE, v |-> <<>>]
NoReq == [kind |-> "", id |-> UnknownTestId, name |-> "", text |-> "",
          body |-> NoBody, qIds |-> NoQIds, notes |-> ""]

ListReq == [NoReq EXCEPT !.kind = "list"]
CreateReq(name, text) == [NoReq EXCEPT !.kind = "create", !.name = name, !.text = text]
GetReq(id) == [NoReq EXCEPT !.kind = "get", !.id = id]
SubmitReq(id, body) == [NoReq EXCEPT !.kind = "submit", !.id = id, !.body = body]
JustifyReq(id, qIds, notes) ==
    [NoReq EXCEPT !.kind = "justify", !.id = id, !.qIds = qIds, !.notes = notes]

NoResp == [status |-> 0, error |-> "", body |-> <<>>]
Reply(status, body) == [status |-> status, error |-> "", body |-> body]
Fail(status, error) == [status |-> status, error |-> error, body |-> <<>>]

Tok(t) == [t |-> t, key |-> "", items |-> <<>>]
Fence == Tok("fence")
Prose == Tok("prose")
OpenObj(key) == [t |-> "{", key |-> key, items |-> <<>>]
CloseObj == Tok("}")
OpenArr == Tok("[")
CloseArr == Tok("]")
ItemsTok(items) == [t |-> "items", key |-> "", items |-> items]

ParsedNull == [isNull |-> TRUE, kind |-> "", key |-> "", items |-> <<>>]

\* JSON.parse(t): an array of items, an object whose property `key` is an
\* array of items, or a SyntaxError (null).
JsonParse(t) ==
    IF Len(t) = 3 /\ t[1].t = "[" /\ t[2].t = "items" /\ t[3].t = "]"
    THEN [isNull |-> FALSE, kind |-> "array", key |-> "", items |-> t[2].items]
    ELSE IF /\ Len(t) = 5 /\ t[1].t = "{" /\ t[2].t = "[" /\ t[3].t = "items"
            /\ t[4].t = "]" /\ t[5].t = "}"
    THEN [isNull |-> FALSE, kind |-> "object", key |-> t[1].key, items |-> t[3].items]
    ELSE ParsedNull

\* safelyParseJsonFromText: null for an empty text; else the fences are
\* removed, the text is cut from the first { or [ to the last } or ], and
\* JSON.parse either returns the value or throws (null).
SafelyParseJsonFromText(text) ==
    IF text = <<>> THEN ParsedNull
    ELSE LET NotFence(k) == k.t # "fence"
             t1 == SelectSeq(text, NotFence)
             firsts == {i \in DOMAIN t1 : t1[i].t \in {"{", "["}}
             t2 == IF firsts = {} THEN t1
                   ELSE SubSeq(t1, CHOOSE i \in firsts : \A k \in firsts : i <= k, Len(t1))
             lasts == {i \in DOMAIN t2 : t2[i].t \in {"}", "]"}}
             t3 == IF lasts = {} THEN t2
                   ELSE SubSeq(t2, 1, CHOOSE i \in lasts : \A k \in lasts : i >= k)
         IN JsonParse(t3)

\* Array.isArray(parsed.<key>) on a non-null parsed value.
HasArray(parsed, key) == ~parsed.isNull /\ parsed.kind = "object" /\ parsed.key = key

\* The picture a list response gives of one test.
Meta(t) == [id |-> t.id, name |-> t.name, createdAt |-> t.createdAt,
            questionCount |-> Len(t.questions)]

(***************************************************************************)
(* State.                                                                  *)
(*   file     knowledge_tests.json: [exists, tests]                        *)
(*   now      the millisecond clock, as last read by Date.now()            *)
(*   pc[h]    where handler h is suspended: "idle" (request not yet        *)
(*            received), "gen" (await callGeminiGenerate), "r_access" /    *)
(*            "r_init" / "r_read" (readFile: fs.access, the fs.writeFile   *)
(*            of ensureFile, fs.readFile), "w_access" / "w_init" /         *)
(*            "w_write" (writeFile likewise), "done" (response sent)       *)
(*   data[h]  the handler's local `data.tests` after its readFile          *)
(*   loc[h]   the handler's other locals that live across an await         *)
(*   resp[h]  the response sent                                            *)
(*   prior[h] history: the handlers that had responded when request h was  *)
(*            received (what "a later request" means)                      *)
(***************************************************************************)
Idle(h) == pc[h] = "idle" /\ \A g \in 1..(h - 1) : pc[g] # "idle"

Received(h) == prior' = [prior EXCEPT ![h] = {g \in Reqs : pc[g] = "done"}]

Quiet == \A g \in Reqs : pc[g] \in {"idle", "done"}

\* What Date.now() may return: the millisecond last read, or a later one.
\* Only equality of readings matters, so the next one stands for all later.
Clock == now..Min(now + 1, MaxClock)

Rand == 0..(MaxRand - 1)

Goto(h, where) == pc' = [pc EXCEPT ![h] = where]

Respond(h, r) == /\ pc' = [pc EXCEPT ![h] = "done"]
                 /\ resp' = [resp EXCEPT ![h] = r]

\* The ids a client can name: those it was given, and one that no test has.
KnownIds ==
    {file.tests[i].id : i \in DOMAIN file.tests}
    \cup {resp[g].body.id : g \in {x \in Reqs : req[x].kind = "create" /\ resp[x].status = 201}}
    \cup {UnknownTestId}

(***************************************************************************)
(* The other routes' state in a process that has just started:             *)
(* routes/agent.js has no model cached, and the data directory holds the   *)
(* default users.json and flashcards.json that index.js creates; rooms.json*)
(* is created by routes/rooms.js on its first read.  A file is kept as     *)
(* whether it exists and the array of its document (users, cards, rooms).  *)
(***************************************************************************)
NoModel == "null"
NoKey == ""
MissingFile == [items |-> <<>>, exists |-> FALSE]
JsonFile(items) == [items |-> items, exists |-> TRUE]
DataFiles == {"users.json", "flashcards.json", "rooms.json"}
DefaultFiles ==
    [f \in DataFiles |-> IF f = "rooms.json" THEN MissingFile ELSE JsonFile(<<>>)]

ServerStarted ==
    /\ GOOGLE_API_KEY = "K"
    /\ cachedModel = NoModel
    /\ cachedSupportsGenerateContent = FALSE
    /\ modelListAttempted = FALSE
    /\ dataDir = DefaultFiles

Init ==
    /\ ServerStarted
    /\ file \in {[exists |-> FALSE, tests |-> <<>>], [exists |-> TRUE, tests |-> <<>>]}
    /\ now = 0
    /\ pc = [h \in Reqs |-> "idle"]
    /\ req = [h \in Reqs |-> NoReq]
    /\ data = [h \in Reqs |-> <<>>]
    /\ loc = [h \in Reqs |-> <<>>]
    /\ resp = [h \in Reqs |-> NoResp]
    /\ prior = [h \in Reqs |-> {}]

(***************************************************************************)
(* ensureFile, as readFile and writeFile run it: fs.access, and when that  *)
(* throws, fs.writeFile of an empty document.                              *)
(***************************************************************************)
EnsureFileAccess(h) ==
    /\ UNCHANGED server
    /\ UNCHANGED prior
    /\ pc[h] \in {"r_access", "w_access"}
    /\ Goto(h, IF pc[h] = "r_access"
               THEN (IF file.exists THEN "r_read" ELSE "r_init")
               ELSE (IF file.exists THEN "w_write" ELSE "w_init"))
    /\ UNCHANGED <<file, now, req, data, loc, resp>>

EnsureFileWrite(h) ==
    /\ UNCHANGED server
    /\ UNCHANGED prior
    /\ pc[h] \in {"r_init", "w_init"}
    /\ file' = [exists |-> TRUE, tests |-> <<>>]
    /\ Goto(h, IF pc[h] = "r_init" THEN "r_read" ELSE "w_write")
    /\ UNCHANGED <<now, req, data, loc, resp>>

\* writeFile's fs.writeFile(FILE, JSON.stringify(data)), then the handler's
\* response: 201 for create, 200 for submit.
WriteFile(h) ==
    /\ UNCHANGED server
    /\ UNCHANGED prior
    /\ pc[h] = "w_write"
    /\ file' = [exists |-> TRUE, tests |-> JsonTests(data[h])]
    /\ Respond(h, IF req[h].kind = "create"
                  THEN Reply(201, Meta(loc[h].test))
                  ELSE Reply(200, [submission |-> JsonSubmission(loc[h].submission),
                                   score |-> loc[h].submission.score]))
    /\ UNCHANGED <<now, req, data, loc>>

(***************************************************************************)
(* router.get("/"): list tests.                                            *)
(***************************************************************************)
ListTests(h) ==
    /\ UNCHANGED server
    /\ Idle(h)
    /\ Received(h)
    /\ req' = [req EXCEPT ![h] = ListReq]
    /\ Goto(h, "r_access")
    /\ UNCHANGED <<file, now, data, loc, resp>>

ListTestsRead(h) ==
    /\ UNCHANGED server
    /\ UNCHANGED prior
    /\ pc[h] = "r_read" /\ req[h].kind = "list"
    /\ data' = [data EXCEPT ![h] = file.tests]
    /\ Respond(h, Reply(200, [i \in DOMAIN file.tests |-> Meta(file.tests[i])]))
    /\ UNCHANGED <<file, now, req, loc>>

(***************************************************************************)
(* router.post("/"): create a test from the generator's questions.         *)
(***************************************************************************)
\* A create handler that calls the generator without looking at name and text.
CreateTestUnvalidated(h, r) ==
    /\ UNCHANGED server
    /\ Idle(h)
    /\ Received(h)
    /\ r.kind = "create"
    /\ req' = [req EXCEPT ![h] = r]
    /\ Goto(h, "gen")
    /\ UNCHANGED <<file, now, data, loc, resp>>

CreateTest(h, r) ==
    /\ UNCHANGED server
    /\ Idle(h)
    /\ Received(h)
    /\ r.kind = "create"
    /\ req' = [req EXCEPT ![h] = r]
    /\ IF r.name = "" \/ r.text = ""
       THEN Respond(h, Fail(400, "name and text required"))
       ELSE Goto(h, "gen") /\ UNCHANGED resp
    /\ UNCHANGED <<file, now, data, loc>>

\* A create handler that goes on to store a test whatever the generator did.
CreateTestGeneratedLenient(h, out) ==
    /\ UNCHANGED server
    /\ UNCHANGED prior
    /\ pc[h] = "gen" /\ req[h].kind = "create"
    /\ \E ms \in Clock :
         /\ now' = ms
         /\ loc' = [loc EXCEPT ![h] =
                      [out |-> out,
                       questions |-> NormalizeQuestions(
                                        SafelyParseJsonFromText(out.text).items, ms)]]
         /\ Goto(h, "r_access")
         /\ UNCHANGED resp
    /\ UNCHANGED <<file, req, data>>

\* The generator's answer arrives (or axios.post throws); loc[h].out is the
\* handler's modelResp / rawOut.
CreateTestGenerated(h, out) ==
    /\ UNCHANGED server
    /\ UNCHANGED prior
    /\ pc[h] = "gen" /\ req[h].kind = "create"
    /\ LET parsed == SafelyParseJsonFromText(out.text)
       IN IF ~out.ok
          THEN /\ Respond(h, Fail(500, "MCQ generation failed"))
               /\ loc' = [loc EXCEPT ![h] = [out |-> out]]
               /\ UNCHANGED now
          ELSE IF ~HasArray(parsed, "questions")
          THEN /\ Respond(h, Fail(500, "Invalid JSON output from model"))
               /\ loc' = [loc EXCEPT ![h] = [out |-> out]]
               /\ UNCHANGED now
          ELSE \E ms \in Clock :
                 /\ now' = ms
                 /\ loc' = [loc EXCEPT ![h] =
                              [out |-> out,
                               questions |-> NormalizeQuestions(parsed.items, ms)]]
                 /\ Goto(h, "r_access")
                 /\ UNCHANGED resp
    /\ UNCHANGED <<file, req, data>>

CreateTestRead(h, rnd) ==
    /\ UNCHANGED server
    /\ UNCHANGED prior
    /\ pc[h] = "r_read" /\ req[h].kind = "create"
    /\ \E ms \in Clock :
         LET testObj == MakeTest(<<ms, rnd>>, req[h].name, req[h].text, loc[h].questions, ms)
         IN /\ now' = ms
            /\ data' = [data EXCEPT ![h] = Append(file.tests, testObj)]
            /\ loc' = [loc EXCEPT ![h] = [out |-> loc[h].out, test |-> testObj]]
    /\ Goto(h, "w_access")
    /\ UNCHANGED <<file, req, resp>>

(***************************************************************************)
(* router.get("/:id"): get one test.                                       *)
(***************************************************************************)
GetTest(h, r) ==
    /\ UNCHANGED server
    /\ Idle(h)
    /\ Received(h)
    /\ r.kind = "get"
    /\ req' = [req EXCEPT ![h] = r]
    /\ Goto(h, "r_access")
    /\ UNCHANGED <<file, now, data, loc, resp>>

GetTestRead(h) ==
    /\ UNCHANGED server
    /\ UNCHANGED prior
    /\ pc[h] = "r_read" /\ req[h].kind = "get"
    /\ data' = [data EXCEPT ![h] = file.tests]
    /\ LET k == FindTest(file.tests, req[h].id)
       IN Respond(h, IF k = 0 THEN Fail(404, "Test not found")
                     ELSE Reply(200, file.tests[k]))
    /\ UNCHANGED <<file, now, req, loc>>

(***************************************************************************)
(* router.post("/:id/submit"): grade the answers and store the submission. *)
(***************************************************************************)
SubmitAnswers(h, r) ==
    /\ UNCHANGED server
    /\ Idle(h)
    /\ Received(h)
    /\ r.kind = "submit"
    /\ req' = [req EXCEPT ![h] = r]
    /\ Goto(h, "r_access")
    /\ UNCHANGED <<file, now, data, loc, resp>>

SubmitAnswersRead(h, rnd) ==
    /\ UNCHANGED server
    /\ UNCHANGED prior
    /\ pc[h] = "r_read" /\ req[h].kind = "submit"
    /\ LET k == FindTest(file.tests, req[h].id)
       IN IF k = 0
          THEN Respond(h, Fail(404, "Test not found")) /\ UNCHANGED <<now, data, loc>>
          ELSE IF ~req[h].body.isArray
          THEN Respond(h, Fail(500, "Could not submit answers"))
               /\ UNCHANGED <<now, data, loc>>
          ELSE \E ms \in Clock :
                 LET submission == MakeSubmission(file.tests[k], req[h].body, ms, rnd)
                 IN /\ now' = ms
                    /\ data' = [data EXCEPT ![h] = PushSubmission(file.tests, k, submission)]
                    /\ loc' = [loc EXCEPT ![h] = [test |-> file.tests[k],
                                                  submission |-> submission]]
                    /\ Goto(h, "w_access")
                    /\ UNCHANGED resp
    /\ UNCHANGED <<file, req>>

(***************************************************************************)
(* router.post("/:id/justify"): ask the generator to explain questions.    *)
(***************************************************************************)
\* A justify handler that reads the store without looking at qIds.
JustifyMistakesUnvalidated(h, r) ==
    /\ UNCHANGED server
    /\ Idle(h)
    /\ Received(h)
    /\ r.kind = "justify"
    /\ req' = [req EXCEPT ![h] = r]
    /\ Goto(h, "r_access")
    /\ UNCHANGED <<file, now, data, loc, resp>>

JustifyMistakes(h, r) ==
    /\ UNCHANGED server
    /\ Idle(h)
    /\ Received(h)
    /\ r.kind = "justify"
    /\ req' = [req EXCEPT ![h] = r]
    /\ IF ~r.qIds.isList \/ Len(r.qIds.v) = 0
       THEN Respond(h, Fail(400, "qIds required"))
       ELSE Goto(h, "r_access") /\ UNCHANGED resp
    /\ UNCHANGED <<file, now, data, loc>>

\* test.questions.filter((q) => qIds.includes(q.id)), and the prompt built
\* from contextNotes and those questions.
JustifyPrompt(test, r) ==
    LET Wanted(q) == \E i \in DOMAIN r.qIds.v : r.qIds.v[i] = q.id
    IN [context |-> r.notes, questions |-> SelectSeq(test.questions, Wanted)]

JustifyMistakesRead(h) ==
    /\ UNCHANGED server
    /\ UNCHANGED prior
    /\ pc[h] = "r_read" /\ req[h].kind = "justify"
    /\ data' = [data EXCEPT ![h] = file.tests]
    /\ LET k == FindTest(file.tests, req[h].id)
       IN IF k = 0
          THEN Respond(h, Fail(404, "Test not found")) /\ UNCHANGED loc
          ELSE /\ loc' = [loc EXCEPT ![h] = JustifyPrompt(file.tests[k], req[h])]
               /\ Goto(h, "gen")
               /\ UNCHANGED resp
    /\ UNCHANGED <<file, now, req>>

JustifyMistakesGenerated(h, out) ==
    /\ UNCHANGED server
    /\ UNCHANGED prior
    /\ pc[h] = "gen" /\ req[h].kind = "justify"
    /\ LET parsed == SafelyParseJsonFromText(out.text)
       IN Respond(h, IF ~out.ok THEN Fail(500, "Justify generation failed")
                     ELSE IF ~HasArray(parsed, "justifications")
                     THEN Fail(500, "Invalid JSON from justification model")
                     ELSE Reply(200, parsed.items))
    /\ UNCHANGED <<file, now, req, data, loc>>

(***************************************************************************)
(* Inputs.                                                                 *)
(***************************************************************************)
Q(k) == <<"q", k, 0>>
Present(v) == [present |-> TRUE, v |-> v]
Absent == [present |-> FALSE, v |-> <<>>]
Item(id, prompt, question, choices, options, correctIndex) ==
    [id |-> id, prompt |-> prompt, question |-> question, choices |-> choices,
     options |-> options, correctIndex |-> correctIndex]
Answer(qId, selectedIndex, correct) ==
    [qId |-> qId, selectedIndex |-> selectedIndex, correct |-> correct]
Body(userId, answers, score) ==
    [userId |-> userId, answers |-> answers, score |-> score, isArray |-> TRUE]

GenError == [ok |-> FALSE, text |-> <<>>]
GenText(text) == [ok |-> TRUE, text |-> text]
GenGarbage == GenText(<<Prose>>)
ObjectText(key, items) == <<OpenObj(key), OpenArr, ItemsTok(items), CloseArr, CloseObj>>
ArrayText(items) == <<OpenArr, ItemsTok(items), CloseArr>>
Fenced(text) == <<Fence>> \o text \o <<Fence>>
GenObject(key, items) == GenText(ObjectText(key, items))

\* The inputs of the concurrent specification: few, so that the
\* interleavings of MaxReq handlers can be explored exhaustively.
CreateReqs == {CreateReq("N1", "T1"), CreateReq("", "T1"), CreateReq("N1", "")}
QuestionOuts ==
    {GenError, GenGarbage,
     GenObject("questions", <<Item(Q(1), "P1", "", Present(<<"a", "b">>), Absent, JNum(1))>>)}
SubmitBodies ==
    {Body("", <<>>, 0 - 1), Body("u1", <<Answer(Q(1), JNum(1), "absent")>>, 0 - 1)}
JustifyQIds == {NoQIds, [isList |-> TRUE, v |-> <<>>], [isList |-> TRUE, v |-> <<Q(1)>>]}
JustifyOuts ==
    {GenError, GenGarbage,
     GenObject("justifications", <<[qId |-> Q(1), explanation |-> "E1"]>>)}

Next ==
    \E h \in 1..MaxReq :
        \/ ListTests(h)
        \/ \E r \in CreateReqs : CreateTest(h, r)
        \/ \E id \in KnownIds : GetTest(h, GetReq(id))
        \/ \E id \in KnownIds, b \in SubmitBodies : SubmitAnswers(h, SubmitReq(id, b))
        \/ \E id \in KnownIds, q \in JustifyQIds : JustifyMistakes(h, JustifyReq(id, q, ""))
        \/ EnsureFileAccess(h)
        \/ EnsureFileWrite(h)
        \/ ListTestsRead(h)
        \/ \E out \in QuestionOuts : CreateTestGenerated(h, out)
        \/ \E rnd \in Rand : CreateTestRead(h, rnd)
        \/ GetTestRead(h)
        \/ \E rnd \in Rand : SubmitAnswersRead(h, rnd)
        \/ JustifyMistakesRead(h)
        \/ \E out \in JustifyOuts : JustifyMistakesGenerated(h, out)
        \/ WriteFile(h)

Spec == Init /\ [][Next]_vars

(***************************************************************************)
(* The same handlers when every request is received only after the         *)
(* response to the one before it: requests executed one after another.     *)
(***************************************************************************)
Spoofed(b) ==
    [b EXCEPT !.score = 100,
              !.answers = [i \in DOMAIN b.answers |-> [b.answers[i] EXCEPT !.correct = "true"]]]

SeqQuestionOuts ==
    QuestionOuts
    \cup {GenObject("questions",
             <<Item(Q(1), "P1", "", Present(<<"a", "b">>), Absent, JNum(1)),
               Item(NoId, "", "P2", Absent, Present(<<"c", "d">>), JInf)>>)}
WrongBody ==
    Body("u2", <<Answer(<<"f", 0, 1>>, JNum(0), "absent"),
                 Answer(Q(1), JNum(0), "false")>>, 0 - 1)
SeqBodies ==
    SubmitBodies \cup {WrongBody}
    \cup {Spoofed(b) : b \in SubmitBodies \cup {WrongBody}}

\* A test that an earlier run of the server created and stored.
StoredTest(out, ms, rnd) ==
    JsonTest(MakeTest(<<ms, rnd>>, "N0", "T0", NormalizeQuestions(SafelyParseJsonFromText(out.text).items, ms), ms))

InitSeq ==
    /\ ServerStarted
    /\ file \in {[exists |-> FALSE, tests |-> <<>>], [exists |-> TRUE, tests |-> <<>>]}
               \cup {[exists |-> TRUE, tests |-> <<StoredTest(out, 0, 0)>>] :
                        out \in {o \in SeqQuestionOuts :
                                    HasArray(SafelyParseJsonFromText(o.text), "questions")}}
    /\ now = 0
    /\ pc = [h \in Reqs |-> "idle"]
    /\ req = [h \in Reqs |-> NoReq]
    /\ data = [h \in Reqs |-> <<>>]
    /\ loc = [h \in Reqs |-> <<>>]
    /\ resp = [h \in Reqs |-> NoResp]
    /\ prior = [h \in Reqs |-> {}]

NextSeq ==
    \E h \in 1..MaxSeqReq :
        \/ Quiet /\ ListTests(h)
        \/ Quiet /\ \E r \in CreateReqs : CreateTest(h, r)
        \/ Quiet /\ \E id \in KnownIds : GetTest(h, GetReq(id))
        \/ Quiet /\ \E id \in KnownIds, b \in SeqBodies : SubmitAnswers(h, SubmitReq(id, b))
        \/ Quiet /\ \E id \in KnownIds, q \in JustifyQIds :
                        JustifyMistakes(h, JustifyReq(id, q, ""))
        \/ EnsureFileAccess(h)
        \/ EnsureFileWrite(h)
        \/ ListTestsRead(h)
        \/ \E out \in SeqQuestionOuts : CreateTestGenerated(h, out)
        \/ \E rnd \in Rand : CreateTestRead(h, rnd)
        \/ GetTestRead(h)
        \/ \E rnd \in Rand : SubmitAnswersRead(h, rnd)
        \/ JustifyMistakesRead(h)
        \/ \E out \in JustifyOuts : JustifyMistakesGenerated(h, out)
        \/ WriteFile(h)

SpecSeq == InitSeq /\ [][NextSeq]_vars

(***************************************************************************)
(* Grading alone: one submit request against a stored test, the test and   *)
(* the answers drawn from larger sets than above.  The tests are those     *)
(* create stores for the generator's items; the long ones (up to           *)
(* MaxScoreQuestions questions, of which the caller gets c right) are      *)
(* there for the score.                                                    *)
(***************************************************************************)
SeqsUpTo(S, n) == UNION {[1..k -> S] : k \in 0..n}

GradeItems ==
    {Item(id, "P1", "", Present(<<"a", "b">>), Absent, ci) :
        id \in {Q(1), Q(2)}, ci \in {JNum(0 - 1), JNum(0), JNum(1)}}
GradeEntries ==
    {Answer(id, sel, "absent") : id \in {Q(1), Q(2), Q(9)}, sel \in {JNum(1), JStr}}

ScoreItems(n) == [i \in 1..n |-> Item(Q(i), "P1", "", Present(<<"a", "b">>), Absent, JNum(1))]
ScoreAnswers(c) == [i \in 1..c |-> Answer(Q(i), JNum(1), "absent")]

GradeOuts ==
    {GenObject("questions", items) : items \in SeqsUpTo(GradeItems, MaxQuestions)}
    \cup {GenObject("questions", ScoreItems(n)) : n \in 0..MaxScoreQuestions}
GradeBodies ==
    {Body("u1", a, 0 - 1) : a \in SeqsUpTo(GradeEntries, MaxAnswers)}
    \cup {Body("u1", ScoreAnswers(c), 0 - 1) : c \in 0..MaxScoreQuestions}
    \cup {[NoBody EXCEPT !.isArray = FALSE]}

InitGrade ==
    /\ ServerStarted
    /\ file \in {[exists |-> TRUE, tests |-> <<StoredTest(out, 0, 0)>>] : out \in GradeOuts}
    /\ now = 0
    /\ pc = [h \in Reqs |-> "idle"]
    /\ req = [h \in Reqs |-> NoReq]
    /\ data = [h \in Reqs |-> <<>>]
    /\ loc = [h \in Reqs |-> <<>>]
    /\ resp = [h \in Reqs |-> NoResp]
    /\ prior = [h \in Reqs |-> {}]

NextGrade ==
    \/ \E id \in KnownIds, b \in GradeBodies : SubmitAnswers(1, SubmitReq(id, b))
    \/ EnsureFileAccess(1)
    \/ \E rnd \in Rand : SubmitAnswersRead(1, rnd)
    \/ WriteFile(1)

SpecGrade == InitGrade /\ [][NextGrade]_vars

(***************************************************************************)
(* Creation alone: one create request, the generator's text drawn from     *)
(* more shapes and more items than above.  The items vary one field of     *)
(* BaseItem at a time; FixtureItem has no id, no prompt and an index past  *)
(* its two choices.                                                        *)
(***************************************************************************)
BaseItem == Item(Q(1), "P1", "", Present(<<"a", "b">>), Absent, JNum(0))
FixtureItem == Item(NoId, "", "Q1", Present(<<"a", "b">>), Absent, JNum(5))

CreateItems ==
    {BaseItem, FixtureItem}
    \cup {[BaseItem EXCEPT !.id = id] : id \in {NoId, Q(2), <<"f", 0, 1>>}}
    \cup {[BaseItem EXCEPT !.prompt = t[1], !.question = t[2]] :
             t \in {<<"", "Q1">>, <<"P1", "Q1">>, <<"", "">>}}
    \cup {[BaseItem EXCEPT !.choices = c[1], !.options = c[2]] :
             c \in {<<Absent, Present(<<"c", "d">>)>>,
                    <<Present(<<"a", "b">>), Present(<<"c", "d">>)>>,
                    <<Absent, Absent>>,
                    <<Present(<<>>), Present(<<"c", "d">>)>>}}
    \cup {[BaseItem EXCEPT !.correctIndex = ci] :
             ci \in {JNum(1), JNum(5), JNum(0 - 1), JStr, JUndef, JInf}}

\* The shapes a text with the items `items` may take.
Shapes(items) ==
    {ObjectText("questions", items),
     Fenced(ObjectText("questions", items)),
     <<Prose>> \o ObjectText("questions", items) \o <<Prose>>,
     ObjectText("questions", items) \o <<Prose, CloseArr>>,
     ObjectText("items", items),
     ArrayText(items),
     Fenced(ArrayText(items))}

CreateOuts ==
    {GenError, GenGarbage, GenText(<<>>)}
    \cup {GenObject("questions", items) : items \in SeqsUpTo(CreateItems, MaxQuestions)}
    \cup {GenText(t) : t \in Shapes(<<>>) \cup Shapes(<<FixtureItem>>)}

InitCreate ==
    /\ ServerStarted
    /\ file \in {[exists |-> FALSE, tests |-> <<>>], [exists |-> TRUE, tests |-> <<>>],
                 [exists |-> TRUE,
                  tests |-> <<StoredTest(GenObject("questions", <<BaseItem>>), 0, 0)>>]}
    /\ now = 0
    /\ pc = [h \in Reqs |-> "idle"]
    /\ req = [h \in Reqs |-> NoReq]
    /\ data = [h \in Reqs |-> <<>>]
    /\ loc = [h \in Reqs |-> <<>>]
    /\ resp = [h \in Reqs |-> NoResp]
    /\ prior = [h \in Reqs |-> {}]

NextCreate ==
    \/ \E r \in CreateReqs : CreateTest(1, r)
    \/ \E out \in CreateOuts : CreateTestGenerated(1, out)
    \/ EnsureFileAccess(1)
    \/ EnsureFileWrite(1)
    \/ \E rnd \in Rand : CreateTestRead(1, rnd)
    \/ WriteFile(1)

SpecCreate == InitCreate /\ [][NextCreate]_vars

(***************************************************************************)
(* Remediation alone: one justify request against a stored test of two     *)
(* questions, with or without a submission, the qIds, the context notes    *)
(* and the generator's text drawn from more cases than above.              *)
(***************************************************************************)
TwoQuestionTest ==
    StoredTest(GenObject("questions", <<BaseItem, [BaseItem EXCEPT !.id = Q(2)]>>), 0, 0)
TwoQuestionTestSubmitted ==
    JsonTest([TwoQuestionTest EXCEPT !.results =
                 <<MakeSubmission(TwoQuestionTest,
                                  Body("u1", <<Answer(Q(1), JNum(1), "absent")>>, 0 - 1),
                                  0, 0)>>])

QIdList(v) == [isList |-> TRUE, v |-> v]
JustifyQIdLists ==
    {NoQIds, QIdList(<<>>), QIdList(<<Q(1)>>), QIdList(<<Q(1), Q(9)>>),
     QIdList(<<Q(9)>>), QIdList(<<Q(2), Q(1)>>)}

Justification(qId) == [qId |-> qId, explanation |-> "E1"]
JustificationLists ==
    {<<>>, <<Justification(Q(1))>>, <<Justification(Q(2))>>, <<Justification(Q(9))>>,
     <<Justification(Q(1)), Justification(Q(9))>>,
     <<Justification(Q(1)), Justification(Q(2))>>}
JustifyTexts ==
    {GenError, GenGarbage, GenText(<<>>)}
    \cup {GenObject("justifications", js) : js \in JustificationLists}
    \cup {GenText(Fenced(ObjectText("justifications", <<Justification(Q(1))>>))),
          GenText(ArrayText(<<Justification(Q(1))>>)),
          GenText(ObjectText("questions", <<Justification(Q(1))>>))}

InitJustify ==
    /\ ServerStarted
    /\ file \in {[exists |-> FALSE, tests |-> <<>>], [exists |-> TRUE, tests |-> <<>>],
                 [exists |-> TRUE, tests |-> <<TwoQuestionTest>>],
                 [exists |-> TRUE, tests |-> <<TwoQuestionTestSubmitted>>]}
    /\ now = 0
    /\ pc = [h \in Reqs |-> "idle"]
    /\ req = [h \in Reqs |-> NoReq]
    /\ data = [h \in Reqs |-> <<>>]
    /\ loc = [h \in Reqs |-> <<>>]
    /\ resp = [h \in Reqs |-> NoResp]
    /\ prior = [h \in Reqs |-> {}]

NextJustify ==
    \/ \E id \in KnownIds, q \in JustifyQIdLists, notes \in {"", "C1"} :
          JustifyMistakes(1, JustifyReq(id, q, notes))
    \/ EnsureFileAccess(1)
    \/ EnsureFileWrite(1)
    \/ JustifyMistakesRead(1)
    \/ \E out \in JustifyTexts : JustifyMistakesGenerated(1, out)

SpecJustify == InitJustify /\ [][NextJustify]_vars

(***************************************************************************)
(* routes/agent.js: POST /api/agent/ask.  A text is a sequence of          *)
(* characters, of which only two kinds matter to trim() and to truthiness: *)
(* white space and anything else.                                          *)
(***************************************************************************)
MaxAsk == 2

Blank == " "
Letter == "a"
IsBlank(c) == c \in {Blank, "\n"}

RECURSIVE TrimStart(_)
TrimStart(text) ==
    IF text # <<>> /\ IsBlank(Head(text)) THEN TrimStart(Tail(text)) ELSE text

RECURSIVE TrimEnd(_)
TrimEnd(text) ==
    IF text # <<>> /\ IsBlank(text[Len(text)])
    THEN TrimEnd(SubSeq(text, 1, Len(text) - 1))
    ELSE text

Trim(text) == TrimEnd(TrimStart(text))

\* Array.prototype.join("\n").
RECURSIVE JoinLines(_)
JoinLines(texts) ==
    IF texts = <<>> THEN <<>>
    ELSE IF Len(texts) = 1 THEN texts[1]
    ELSE texts[1] \o <<"\n">> \o JoinLines(Tail(texts))

\* A value that is a text, a function or undefined.
TextValue(text) == [t |-> "string", text |-> text]
FunctionValue == [t |-> "function", text |-> <<>>]
UndefinedValue == [t |-> "undefined", text |-> <<>>]
Truthy(v) == v.t = "function" \/ (v.t = "string" /\ v.text # <<>>)

\* FALLBACK_ANSWERS: its two own properties, and the properties every object
\* literal inherits from Object.prototype, which are functions.
RecursionAnswer == <<"R">>
DefaultAnswer == <<"D">>
OwnFallbackKeys == {"Explain recursion simply", "default"}
ObjectPrototypeKeys ==
    {"constructor", "toString", "toLocaleString", "valueOf", "hasOwnProperty",
     "isPrototypeOf", "propertyIsEnumerable"}

FALLBACK_ANSWERS(key) ==
    IF key = "Explain recursion simply" THEN TextValue(RecursionAnswer)
    ELSE IF key = "default" THEN TextValue(DefaultAnswer)
    ELSE IF key \in ObjectPrototypeKeys THEN FunctionValue
    ELSE UndefinedValue

\* FALLBACK_ANSWERS[question] || FALLBACK_ANSWERS.default
FallbackOwnOnly(question) ==
    IF question \in OwnFallbackKeys
    THEN FALLBACK_ANSWERS(question)
    ELSE FALLBACK_ANSWERS("default")

Fallback(question) ==
    IF Truthy(FALLBACK_ANSWERS(question))
    THEN FALLBACK_ANSWERS(question)
    ELSE FALLBACK_ANSWERS("default")

\* res.json: JSON.stringify leaves out a property whose value is a function
\* or undefined, so the client reads undefined there.
JsonProperty(v) == IF v.t = "string" THEN v ELSE UndefinedValue

AnswerBody(answer, note) == [answer |-> JsonProperty(answer), note |-> note]

\* extractAnswer.  A body is null or has the candidates (each with its parts'
\* texts and, in the older shape, a text of its own) and the older output
\* text.
NullBody == [isNull |-> TRUE, candidates |-> <<>>, output |-> <<>>]
Body200(candidates, output) ==
    [isNull |-> FALSE, candidates |-> candidates, output |-> output]
Candidate(parts, text) == [text |-> text, parts |-> parts]

RECURSIVE FlatParts(_)
FlatParts(candidates) ==
    IF candidates = <<>> THEN <<>>
    ELSE Head(candidates).parts \o FlatParts(Tail(candidates))

FirstTruthy(texts) ==
    IF \E i \in DOMAIN texts : texts[i] # <<>>
    THEN texts[CHOOSE i \in DOMAIN texts :
                   texts[i] # <<>> /\ \A j \in 1..(i - 1) : texts[j] = <<>>]
    ELSE <<>>

\* null is the empty text here: both are falsy in the handler's `if (answer)`.
extractAnswer(body) ==
    IF body.isNull \/ body.candidates = <<>> THEN <<>>
    ELSE LET parts == FlatParts(body.candidates)
             text == FirstTruthy(<<JoinLines(SelectSeq(parts, LAMBDA x : x # <<>>)),
                                   body.output,
                                   body.candidates[1].text>>)
         IN  Trim(text)

extractAnswerUntrimmed(body) ==
    IF body.isNull \/ body.candidates = <<>> THEN <<>>
    ELSE LET parts == FlatParts(body.candidates)
         IN  FirstTruthy(<<JoinLines(SelectSeq(parts, LAMBDA x : x # <<>>)),
                           body.output,
                           body.candidates[1].text>>)

\* pickPreferredModel over the short names of the listed models.
Model(name, methods) == [name |-> name, methods |-> methods]
PREFERRED_MODEL_PREFIXES == <<"gemini-2.0-flash">>
ModelNames == {"gemini-2.0-flash", "gemini-2.0-flash-001", "embedding-001"}
StartsWith(name, prefix) ==
    /\ prefix = "gemini-2.0-flash"
    /\ name \in {"gemini-2.0-flash", "gemini-2.0-flash-001"}

FirstIndex(models, Test(_)) ==
    IF \E i \in DOMAIN models : Test(models[i])
    THEN CHOOSE i \in DOMAIN models :
             Test(models[i]) /\ \A j \in 1..(i - 1) : ~Test(models[j])
    ELSE 0

pickPreferredModel(models) ==
    LET pref == PREFERRED_MODEL_PREFIXES[1]
        found == FirstIndex(models, LAMBDA m : m.name = pref \/ StartsWith(m.name, pref))
    IN  IF found # 0 THEN models[found].name
        ELSE IF models # <<>> THEN models[1].name
        ELSE NoModel

\* supportedGenerationMethods of the picked model: a list with or without
\* "generateContent", or no list.
SupportsGenerateContent(models, picked) ==
    LET k == FirstIndex(models, LAMBDA m : m.name = picked)
    IN  IF models[k].methods = "none" THEN TRUE
        ELSE models[k].methods = "generateContent"

AskReq(question) == [question |-> question, kind |-> "ask"]
StringQuestion(q) == [t |-> "string", s |-> q]
NumberQuestion == [t |-> "number", s |-> ""]
NoQuestion == [t |-> "undefined", s |-> ""]

\* The state after the try block of the handler: the request goes on to
\* generateContent with the cached model, or answers with the fallback.
AskGenerateOrFallback(h, question, model, supports) ==
    IF model # NoModel /\ supports
    THEN /\ Goto(h, "generating")
         /\ loc' = [loc EXCEPT ![h] = [model |-> model]]
         /\ UNCHANGED resp
    ELSE /\ Respond(h, Reply(200, AnswerBody(Fallback(question.s), TRUE)))
         /\ UNCHANGED loc

Ask(h, r) ==
    /\ Idle(h)
    /\ Received(h)
    /\ r.kind = "ask"
    /\ req' = [req EXCEPT ![h] = r]
    /\ IF r.question.t # "string" \/ r.question.s = ""
       THEN Respond(h, Fail(400, "question (string) is required")) /\ UNCHANGED loc
       ELSE IF GOOGLE_API_KEY = NoKey
       THEN /\ Respond(h, Reply(200, AnswerBody(Fallback(r.question.s), FALSE)))
            /\ UNCHANGED loc
       ELSE IF ~modelListAttempted \/ cachedModel = NoModel
       THEN Goto(h, "listing") /\ UNCHANGED <<loc, resp>>
       ELSE AskGenerateOrFallback(h, r.question, cachedModel,
                                  cachedSupportsGenerateContent)
    /\ UNCHANGED <<file, now, data, server>>

\* listModels has settled: it threw, or it gave the models.
ListError == [ok |-> FALSE, models |-> <<>>]
Listed(models) == [ok |-> TRUE, models |-> models]

AskListed(h, out) ==
    /\ UNCHANGED prior
    /\ pc[h] = "listing" /\ req[h].kind = "ask"
    /\ IF ~out.ok
       THEN UNCHANGED <<cachedModel, cachedSupportsGenerateContent, modelListAttempted>>
       ELSE LET picked == pickPreferredModel(out.models)
            IN  /\ modelListAttempted' = TRUE
                /\ IF picked # NoModel
                   THEN /\ cachedModel' = picked
                        /\ cachedSupportsGenerateContent' =
                               SupportsGenerateContent(out.models, picked)
                   ELSE UNCHANGED <<cachedModel, cachedSupportsGenerateContent>>
    /\ AskGenerateOrFallback(h, req[h].question, cachedModel',
                             cachedSupportsGenerateContent')
    /\ UNCHANGED <<file, now, req, data, GOOGLE_API_KEY, dataDir>>

\* The cache after a generateContent call that failed with this status.
InvalidatedKeepingFlag(status) ==
    IF status \in {401, 403, 404}
    THEN /\ cachedModel' = NoModel
         /\ modelListAttempted' = FALSE
         /\ UNCHANGED cachedSupportsGenerateContent
    ELSE UNCHANGED <<cachedModel, cachedSupportsGenerateContent, modelListAttempted>>

Invalidated(status) ==
    IF status \in {401, 403, 404}
    THEN /\ cachedModel' = NoModel
         /\ modelListAttempted' = FALSE
         /\ cachedSupportsGenerateContent' = FALSE
    ELSE UNCHANGED <<cachedModel, cachedSupportsGenerateContent, modelListAttempted>>

\* generateContent has settled: a 2xx body, or an error with the status of
\* its response (0 when there was none: a timeout, a network error).
GenerateFailed(status) == [body |-> NullBody, status |-> status, ok |-> FALSE]
Generated(body) == [body |-> body, status |-> 200, ok |-> TRUE]

AskGenerated(h, out) ==
    /\ UNCHANGED prior
    /\ pc[h] = "generating" /\ req[h].kind = "ask"
    /\ IF out.ok /\ extractAnswer(out.body) # <<>>
       THEN /\ Respond(h, Reply(200, AnswerBody(TextValue(extractAnswer(out.body)), FALSE)))
            /\ UNCHANGED <<cachedModel, cachedSupportsGenerateContent, modelListAttempted>>
       ELSE /\ IF out.ok
               THEN UNCHANGED <<cachedModel, cachedSupportsGenerateContent,
                                modelListAttempted>>
               ELSE Invalidated(out.status)
            /\ Respond(h, Reply(200, AnswerBody(Fallback(req[h].question.s), TRUE)))
    /\ loc' = [loc EXCEPT ![h] = [s |-> out.status, model |-> loc[h].model]]
    /\ UNCHANGED <<file, now, req, data, GOOGLE_API_KEY, dataDir>>

Questions ==
    {NoQuestion, NumberQuestion, StringQuestion(""), StringQuestion("What is a loop"),
     StringQuestion("Explain recursion simply"), StringQuestion("default"),
     StringQuestion("toString")}

ModelLists ==
    {<<>>,
     <<Model("embedding-001", "embedContent")>>,
     <<Model("embedding-001", "embedContent"), Model("gemini-2.0-flash-001", "generateContent")>>,
     <<Model("gemini-2.0-flash", "none")>>,
     <<Model("gemini-2.0-flash", "embedContent")>>}

ListOuts == {ListError} \cup {Listed(ms) : ms \in ModelLists}

Bodies ==
    {NullBody,
     Body200(<<>>, <<Letter>>),
     Body200(<<Candidate(<<<<Letter>>>>, <<>>)>>, <<>>),
     Body200(<<Candidate(<<<<Blank, Letter, Blank>>, <<>>>>, <<>>),
               Candidate(<<<<Letter>>>>, <<>>)>>, <<>>),
     Body200(<<Candidate(<<<<Blank>>>>, <<>>)>>, <<>>),
     Body200(<<Candidate(<<>>, <<>>)>>, <<>>),
     Body200(<<Candidate(<<>>, <<Letter, Blank>>)>>, <<>>),
     Body200(<<Candidate(<<<<>>>>, <<>>)>>, <<Blank, Letter>>)}

GenerateOuts ==
    {GenerateFailed(st) : st \in {0, 401, 403, 404, 429, 500}}
    \cup {Generated(b) : b \in Bodies}

InitAgent ==
    /\ file = [tests |-> <<>>, exists |-> TRUE]
    /\ now = 0
    /\ pc = [h \in Reqs |-> "idle"]
    /\ req = [h \in Reqs |-> NoReq]
    /\ data = [h \in Reqs |-> <<>>]
    /\ loc = [h \in Reqs |-> <<>>]
    /\ resp = [h \in Reqs |-> NoResp]
    /\ prior = [h \in Reqs |-> {}]
    /\ GOOGLE_API_KEY \in {NoKey, "K"}
    /\ cachedModel = NoModel
    /\ cachedSupportsGenerateContent = FALSE
    /\ modelListAttempted = FALSE
    /\ dataDir = DefaultFiles

\* A client reads the response of a completed request and sends the next
\* one on the same connection.
NextRequest(h) ==
    /\ pc[h] = "done"
    /\ pc' = [pc EXCEPT ![h] = "idle"]
    /\ req' = [req EXCEPT ![h] = NoReq]
    /\ resp' = [resp EXCEPT ![h] = NoResp]
    /\ loc' = [loc EXCEPT ![h] = <<>>]
    /\ prior' = [prior EXCEPT ![h] = {}]
    /\ UNCHANGED <<file, now, data, server>>

NextAgent ==
    \E h \in 1..MaxAsk :
        \/ \E q \in Questions : Ask(h, AskReq(q))
        \/ \E out \in ListOuts : AskListed(h, out)
        \/ \E out \in GenerateOuts : AskGenerated(h, out)
        \/ NextRequest(h)

SpecAgent == InitAgent /\ [][NextAgent]_vars

(***************************************************************************)
(* routes/rooms.js: the rooms of group learning, kept in rooms.json.  Each *)
(* handler reads the whole file, changes its copy and writes the whole     *)
(* file back.  A room is its id and its participants; a participant is the *)
(* id it joined with.  An id is a string or a number, with the string that *)
(* String() gives for it.                                                  *)
(***************************************************************************)
MaxJoin == 2

StringId(s) == [t |-> "string", s |-> s]
NumberId(s) == [t |-> "number", s |-> s]
NoParticipantId == [t |-> "undefined", s |-> ""]
\* A string is truthy unless empty, a number unless 0.
TruthyId(x) == x.t # "undefined" /\ x.s \notin {"", "0"}

Room(id, participants) == [id |-> id, participants |-> participants]
Participant(userId) == [id |-> userId]

RoomsFile == dataDir["rooms.json"]

\* findRoom: the first room whose id has the string of roomId, or 0.
findRoom(rooms, roomId) ==
    FirstIndex(rooms, LAMBDA r : r.id = roomId)

\* room.participants.find((p) => String(p.id) === String(userId))
AlreadyNever(participants, userId) == FALSE

Already(participants, userId) ==
    \E i \in DOMAIN participants : participants[i].id.s = userId.s

\* userId of a join: body.id || body.guestId || null (req.user is never set
\* on this router).
JoinReq(roomId, bodyId, guestId) ==
    [id |-> roomId, kind |-> "join", bodyId |-> bodyId, guestId |-> guestId]
RoomReq(title, topic) == [name |-> title, text |-> topic, kind |-> "room"]

UserIdOf(r) ==
    IF TruthyId(r.bodyId) THEN r.bodyId
    ELSE IF TruthyId(r.guestId) THEN r.guestId
    ELSE NoParticipantId

CreateRoom(h, r) ==
    /\ Idle(h)
    /\ Received(h)
    /\ r.kind = "room"
    /\ req' = [req EXCEPT ![h] = r]
    /\ IF r.name = "" \/ r.text = ""
       THEN Respond(h, Fail(400, "title and topic required"))
       ELSE Goto(h, "rooms_read") /\ UNCHANGED resp
    /\ UNCHANGED <<file, now, data, loc, server>>

JoinRoom(h, r) ==
    /\ Idle(h)
    /\ Received(h)
    /\ r.kind = "join"
    /\ req' = [req EXCEPT ![h] = r]
    /\ IF UserIdOf(r) = NoParticipantId
       THEN Respond(h, Fail(400, "user id required to join (guestId ok)"))
       ELSE Goto(h, "rooms_read") /\ UNCHANGED resp
    /\ UNCHANGED <<file, now, data, loc, server>>

\* The handler from the value readRoomsFile returned to its next await: a
\* response, or the write of its changed copy.
RoomsHandle(h, rooms, rnd) ==
    IF req[h].kind = "room"
    THEN \E ms \in Clock :
            /\ now' = ms
            /\ loc' = [loc EXCEPT ![h] = Room(<<ms, rnd>>, <<>>)]
            /\ data' = [data EXCEPT ![h] = Append(rooms, Room(<<ms, rnd>>, <<>>))]
            /\ Goto(h, "rooms_write")
            /\ UNCHANGED resp
    ELSE LET k == findRoom(rooms, req[h].id)
             userId == UserIdOf(req[h])
         IN  /\ UNCHANGED now
             /\ IF k = 0
                THEN /\ Respond(h, Fail(404, "Room not found"))
                     /\ UNCHANGED <<data, loc>>
                ELSE IF Already(rooms[k].participants, userId)
                THEN /\ Respond(h, Reply(200, rooms[k]))
                     /\ UNCHANGED <<data, loc>>
                ELSE LET joined == Room(rooms[k].id,
                                        Append(rooms[k].participants, Participant(userId)))
                     IN  /\ loc' = [loc EXCEPT ![h] = joined]
                         /\ data' = [data EXCEPT ![h] = [rooms EXCEPT ![k] = joined]]
                         /\ Goto(h, "rooms_write")
                         /\ UNCHANGED resp

\* readRoomsFile: fs.readFile gave the document, or threw because the file
\* is missing.
RoomsRead(h, rnd) ==
    /\ UNCHANGED prior
    /\ pc[h] = "rooms_read"
    /\ IF RoomsFile.exists
       THEN RoomsHandle(h, RoomsFile.items, rnd)
       ELSE Goto(h, "rooms_init") /\ UNCHANGED <<now, data, loc, resp>>
    /\ UNCHANGED <<file, req, server>>

\* readRoomsFile, its catch: the default document is written and returned.
RoomsInit(h, rnd) ==
    /\ UNCHANGED prior
    /\ pc[h] = "rooms_init"
    /\ dataDir' = [dataDir EXCEPT !["rooms.json"] = JsonFile(<<>>)]
    /\ RoomsHandle(h, <<>>, rnd)
    /\ UNCHANGED <<file, req, GOOGLE_API_KEY, cachedModel,
                   cachedSupportsGenerateContent, modelListAttempted>>

\* writeRoomsFile, then the response.
RoomsWrite(h) ==
    /\ UNCHANGED prior
    /\ pc[h] = "rooms_write"
    /\ dataDir' = [dataDir EXCEPT !["rooms.json"] = JsonFile(data[h])]
    /\ Respond(h, Reply(IF req[h].kind = "room" THEN 201 ELSE 200, loc[h]))
    /\ UNCHANGED <<file, now, req, data, loc, GOOGLE_API_KEY, cachedModel,
                   cachedSupportsGenerateContent, modelListAttempted>>

FirstRoomId == <<0, 0>>
RoomReqs == {RoomReq("T1", "P1"), RoomReq("", "P1")}
RoomIds ==
    {FirstRoomId}
    \cup {RoomsFile.items[i].id : i \in DOMAIN RoomsFile.items}
UserIds == {NoParticipantId, StringId("u1"), StringId("1"), NumberId("1")}
GuestIds == {NoParticipantId, StringId("u1")}

InitRooms ==
    /\ file = [tests |-> <<>>, exists |-> TRUE]
    /\ now = 0
    /\ pc = [h \in Reqs |-> "idle"]
    /\ req = [h \in Reqs |-> NoReq]
    /\ data = [h \in Reqs |-> <<>>]
    /\ loc = [h \in Reqs |-> <<>>]
    /\ resp = [h \in Reqs |-> NoResp]
    /\ prior = [h \in Reqs |-> {}]
    /\ GOOGLE_API_KEY = "K"
    /\ cachedModel = NoModel
    /\ cachedSupportsGenerateContent = FALSE
    /\ modelListAttempted = FALSE
    /\ dataDir \in {DefaultFiles,
                    [DefaultFiles EXCEPT !["rooms.json"] =
                        JsonFile(<<Room(FirstRoomId, <<>>)>>)]}

NextRooms ==
    \E h \in 1..MaxJoin :
        \/ \E r \in RoomReqs : CreateRoom(h, r)
        \/ \E id \in RoomIds, u \in UserIds, g \in GuestIds : JoinRoom(h, JoinReq(id, u, g))
        \/ \E rnd \in Rand : RoomsRead(h, rnd)
        \/ \E rnd \in Rand : RoomsInit(h, rnd)
        \/ RoomsWrite(h)

SpecRooms == InitRooms /\ [][NextRooms]_vars

(***************************************************************************)
(* index.js: POST /api/auth/register on users.json.  A user is its id, its *)
(* email and its password; the token is the payload that was signed.       *)
(***************************************************************************)
MaxRegister == 3

UsersFile == dataDir["users.json"]

User(id, email, password) == [id |-> id, email |-> email, password |-> password]
RegisterReq(username, email, password) ==
    [name |-> username, kind |-> "register", email |-> email, password |-> password]
Token(user) == [id |-> user.id, email |-> user.email]
Account(user) == [id |-> user.id, email |-> user.email, token |-> Token(user)]

\* readJsonFile("users.json").catch(() => ({ users: [] })), then
\* usersData.users || []
ReadUsers == IF UsersFile.exists THEN UsersFile.items ELSE <<>>

\* (usersData.users || []).find((u) => u.email === email)
Existing(users, email) == \E i \in DOMAIN users : users[i].email = email

Register(h, r) ==
    /\ Idle(h)
    /\ Received(h)
    /\ r.kind = "register"
    /\ req' = [req EXCEPT ![h] = r]
    /\ IF r.name = "" \/ r.email = "" \/ r.password = ""
       THEN Respond(h, Fail(400, "username, email, password required"))
       ELSE Goto(h, "users_read") /\ UNCHANGED resp
    /\ UNCHANGED <<file, now, data, loc, server>>

\* shortId("user_"): the first group of a random uuid, here one of MaxRand
\* values.
RegisterRead(h, rnd) ==
    /\ UNCHANGED prior
    /\ pc[h] = "users_read" /\ req[h].kind = "register"
    /\ IF Existing(ReadUsers, req[h].email)
       THEN /\ Respond(h, Fail(409, "User already exists with that email"))
            /\ UNCHANGED <<data, loc>>
       ELSE LET newUser == User(<<"user", rnd>>, req[h].email, req[h].password)
            IN  /\ loc' = [loc EXCEPT ![h] = newUser]
                /\ data' = [data EXCEPT ![h] = Append(ReadUsers, newUser)]
                /\ Goto(h, "users_write")
                /\ UNCHANGED resp
    /\ UNCHANGED <<file, now, req, server>>

\* writeJsonFile("users.json", usersData), jwt.sign and the 201 response.
RegisterWrite(h) ==
    /\ UNCHANGED prior
    /\ pc[h] = "users_write" /\ req[h].kind = "register"
    /\ dataDir' = [dataDir EXCEPT !["users.json"] = JsonFile(data[h])]
    /\ Respond(h, Reply(201, Account(loc[h])))
    /\ UNCHANGED <<file, now, req, data, loc, GOOGLE_API_KEY, cachedModel,
                   cachedSupportsGenerateContent, modelListAttempted>>

RegisterReqs ==
    {RegisterReq(n, e, "pw") : n \in {"N1"}, e \in {"a@x", "b@x"}}
    \cup {RegisterReq("", "a@x", "pw"), RegisterReq("N1", "", "pw"),
          RegisterReq("N1", "a@x", "")}

InitRegister ==
    /\ file = [tests |-> <<>>, exists |-> TRUE]
    /\ now = 0
    /\ pc = [h \in Reqs |-> "idle"]
    /\ req = [h \in Reqs |-> NoReq]
    /\ data = [h \in Reqs |-> <<>>]
    /\ loc = [h \in Reqs |-> <<>>]
    /\ resp = [h \in Reqs |-> NoResp]
    /\ prior = [h \in Reqs |-> {}]
    /\ GOOGLE_API_KEY = "K"
    /\ cachedModel = NoModel
    /\ cachedSupportsGenerateContent = FALSE
    /\ modelListAttempted = FALSE
    /\ dataDir \in {DefaultFiles, [DefaultFiles EXCEPT !["users.json"] = MissingFile]}

NextRegister ==
    \E h \in 1..MaxRegister :
        \/ \E r \in RegisterReqs : Register(h, r)
        \/ \E rnd \in Rand : RegisterRead(h, rnd)
        \/ RegisterWrite(h)

SpecRegister == InitRegister /\ [][NextRegister]_vars

(***************************************************************************)
(* index.js: the middleware chain.  The routers of knowledgeTests, agent   *)
(* and rooms are mounted first, then authMiddleware, then the routes of    *)
(* index.js, then the 404 fallback.  A path is its segments; a route is    *)
(* its method, its pattern, and what its handler does on the data files    *)
(* when it runs to its response: the files it reads, the files it writes,  *)
(* its status.                                                             *)
(***************************************************************************)
MaxHttp == 2

Route(method, pattern, reads, writes, status) ==
    [status |-> status, method |-> method, pattern |-> pattern,
     reads |-> reads, writes |-> writes]

Params == {":id", ":roomId", ":filename"}
KnowledgeTests == <<"api", "knowledge-tests">>
GroupLearning == <<"api", "group-learning">>

\* app.use("/api/knowledge-tests", ...), app.use("/api/agent", ...),
\* app.use("/api/group-learning", ...): the routes of the mounted routers.
RouterRoutes ==
    <<Route("GET", KnowledgeTests, {"knowledge_tests.json"}, {}, 200),
      Route("POST", KnowledgeTests, {"knowledge_tests.json"}, {"knowledge_tests.json"}, 201),
      Route("GET", KnowledgeTests \o <<":id">>, {"knowledge_tests.json"}, {}, 200),
      Route("POST", KnowledgeTests \o <<":id", "submit">>,
            {"knowledge_tests.json"}, {"knowledge_tests.json"}, 200),
      Route("POST", KnowledgeTests \o <<":id", "justify">>, {"knowledge_tests.json"}, {}, 200),
      Route("POST", <<"api", "agent", "ask">>, {}, {}, 200),
      Route("GET", GroupLearning \o <<"rooms">>, {"rooms.json"}, {}, 200),
      Route("POST", GroupLearning \o <<"rooms">>, {"rooms.json"}, {"rooms.json"}, 201),
      Route("GET", GroupLearning \o <<":roomId">>, {"rooms.json"}, {}, 200),
      Route("POST", GroupLearning \o <<":roomId", "join">>, {"rooms.json"}, {"rooms.json"}, 200),
      Route("POST", GroupLearning \o <<":roomId", "flashcards", "add">>,
            {"rooms.json"}, {"rooms.json"}, 201),
      Route("GET", GroupLearning \o <<":roomId", "flashcards">>, {"rooms.json"}, {}, 200)>>

\* The routes of index.js, in the order they are registered.  POST
\* /api/group-learning/sessions reads its two files and then fails on
\* req.user, which authMiddleware does not set on an exempt path.
AppRoutes ==
    <<Route("POST", <<"api", "auth", "register">>, {"users.json"}, {"users.json"}, 201),
      Route("POST", <<"api", "auth", "login">>, {"users.json"}, {}, 200),
      Route("GET", <<"api", "profile">>, {"users.json"}, {}, 200),
      Route("GET", <<"api", "dashboard", "overview">>, {"dashboard.json"}, {}, 200),
      Route("GET", <<"api", "flashcards">>, {"flashcards.json"}, {}, 200),
      Route("POST", <<"api", "flashcards">>, {"flashcards.json"}, {"flashcards.json"}, 201),
      Route("PUT", <<"api", "flashcards", ":id", "review">>,
            {"flashcards.json"}, {"flashcards.json"}, 200),
      Route("GET", <<"api", "study-planner", "calendar">>, {"study_sessions.json"}, {}, 200),
      Route("POST", <<"api", "study-planner", "sessions">>,
            {"study_sessions.json"}, {"study_sessions.json"}, 201),
      Route("GET", <<"api", "knowledge-gaps">>, {"knowledge_gaps.json"}, {}, 200),
      Route("GET", GroupLearning \o <<"sessions">>, {"group_sessions.json"}, {}, 200),
      Route("POST", GroupLearning \o <<"sessions">>,
            {"group_sessions.json", "users.json"}, {}, 500),
      Route("GET", <<"api", "ai-coach", "insights">>, {"ai_insights.json"}, {}, 200),
      Route("GET", <<"api", "notifications">>, {"notifications.json"}, {}, 200),
      Route("GET", <<"api", "mock">>, {}, {}, 200),
      Route("GET", <<"api", "mock-files">>, {}, {}, 200),
      Route("GET", <<"api", "mock", ":filename">>, {":filename"}, {}, 200),
      Route("POST", <<"api", "mock-append", ":filename">>, {":filename"}, {":filename"}, 201),
      Route("GET", <<>>, {}, {}, 200)>>

HttpReq(method, path, auth, payload) ==
    [body |-> payload, kind |-> "http", method |-> method, auth |-> auth, path |-> path]

Matches(route, r) ==
    /\ route.method = r.method
    /\ Len(route.pattern) = Len(r.path)
    /\ \A i \in DOMAIN r.path : route.pattern[i] \in Params \/ route.pattern[i] = r.path[i]

MatchIn(routes, r) == FirstIndex(routes, LAMBDA route : Matches(route, r))

\* req.path.startsWith(API_PREFIX + prefix): the path is a string, so the
\* prefix "/mock" also begins "/mock-files" and "/mock-append".
SegmentStartsWith(segment, prefix) ==
    \/ segment = prefix
    \/ prefix = "mock" /\ segment \in {"mock-files", "mock-append"}

Exempt(path) ==
    /\ Len(path) >= 2 /\ path[1] = "api"
    /\ \/ path[2] = "auth" /\ Len(path) >= 3
       \/ \E prefix \in {"mock", "agent", "generator", "group-learning"} :
              SegmentStartsWith(path[2], prefix)

\* authMiddleware: next() for an exempt path, else the Bearer token must
\* verify.
authMiddleware(r) == Exempt(r.path) \/ r.auth = "valid"

Access(reads, writes) == [reads |-> reads, writes |-> writes]
NoAccess == Access({}, {})

\* POST /api/mock-append/:filename: the payload, given an id when it has
\* none, is appended to the array of the file.
MockAppend(h, r) ==
    LET filename == r.path[3]
    IN  IF filename \notin {f \in DataFiles : dataDir[f].exists}
        THEN /\ Respond(h, Fail(404, "file not available"))
             /\ loc' = [loc EXCEPT ![h] = NoAccess]
             /\ UNCHANGED dataDir
        ELSE IF r.body = <<>>
        THEN /\ Respond(h, Fail(400, "body required"))
             /\ loc' = [loc EXCEPT ![h] = NoAccess]
             /\ UNCHANGED dataDir
        ELSE /\ dataDir' = [dataDir EXCEPT ![filename] =
                               JsonFile(Append(dataDir[filename].items, r.body))]
             /\ loc' = [loc EXCEPT ![h] = Access({filename}, {filename})]
             /\ Respond(h, Reply(201, r.body))

Handle(h, route, r) ==
    IF route.pattern = <<"api", "mock-append", ":filename">>
    THEN MockAppend(h, r)
    ELSE /\ Respond(h, Reply(route.status, <<>>))
         /\ loc' = [loc EXCEPT ![h] =
                       Access({IF f = ":filename" THEN r.path[3] ELSE f : f \in route.reads},
                              route.writes)]
         /\ UNCHANGED dataDir

Serve(h, r) ==
    /\ Idle(h)
    /\ Received(h)
    /\ r.kind = "http"
    /\ req' = [req EXCEPT ![h] = r]
    /\ IF MatchIn(RouterRoutes, r) # 0
       THEN Handle(h, RouterRoutes[MatchIn(RouterRoutes, r)], r)
       ELSE IF ~authMiddleware(r)
       THEN /\ Respond(h, Fail(401, "Missing or invalid Authorization header"))
            /\ loc' = [loc EXCEPT ![h] = NoAccess]
            /\ UNCHANGED dataDir
       ELSE IF MatchIn(AppRoutes, r) # 0
       THEN Handle(h, AppRoutes[MatchIn(AppRoutes, r)], r)
       ELSE /\ Respond(h, Fail(404, "Not found"))
            /\ loc' = [loc EXCEPT ![h] = NoAccess]
            /\ UNCHANGED dataDir
    /\ UNCHANGED <<file, now, data, GOOGLE_API_KEY, cachedModel,
                   cachedSupportsGenerateContent, modelListAttempted>>

Paths ==
    {<<"api", "flashcards">>, <<"api", "profile">>, <<"api", "nothing">>,
     KnowledgeTests, KnowledgeTests \o <<"t1", "submit">>,
     <<"api", "agent", "ask">>,
     GroupLearning \o <<"rooms">>, GroupLearning \o <<"sessions">>,
     GroupLearning \o <<"r1", "join">>,
     <<"api", "mock">>, <<"api", "mock-files">>, <<"api", "mock", "users.json">>,
     <<"api", "mock-append", "users.json">>, <<"api", "mock-append", "rooms.json">>,
     <<"api", "auth", "register">>, <<"api", "auth", "login">>}

Payloads == {<<>>, User(<<"user", 0>>, "m@x", "pw")}

HttpReqs ==
    {HttpReq(m, p, a, b) :
        m \in {"GET", "POST"}, p \in Paths, a \in {"none", "bad", "valid"}, b \in Payloads}

InitHttp ==
    /\ file = [tests |-> <<>>, exists |-> TRUE]
    /\ now = 0
    /\ pc = [h \in Reqs |-> "idle"]
    /\ req = [h \in Reqs |-> NoReq]
    /\ data = [h \in Reqs |-> <<>>]
    /\ loc = [h \in Reqs |-> <<>>]
    /\ resp = [h \in Reqs |-> NoResp]
    /\ prior = [h \in Reqs |-> {}]
    /\ GOOGLE_API_KEY = "K"
    /\ cachedModel = NoModel
    /\ cachedSupportsGenerateContent = FALSE
    /\ modelListAttempted = FALSE
    /\ dataDir = DefaultFiles

NextHttp == \E h \in 1..MaxHttp, r \in HttpReqs : Serve(h, r)

SpecHttp == InitHttp /\ [][NextHttp]_vars

(***************************************************************************)
(* Properties.                                                             *)
(***************************************************************************)
Range(f) == {f[i] : i \in DOMAIN f}

Submitted(h) == req[h].kind = "submit" /\ pc[h] = "done" /\ resp[h].status = 200

Created(h) == req[h].kind = "create" /\ pc[h] = "done" /\ resp[h].status = 201

\* The fields of a Test that no operation is meant to change.
Immutable(t) == [id |-> t.id, name |-> t.name, createdAt |-> t.createdAt,
                 sourceText |-> t.sourceText, questions |-> t.questions]

\* How often submission s occurs in the stored results of the test `id`.
Stored(id, s) ==
    LET k == FindTest(file.tests, id)
    IN IF k = 0 THEN 0
       ELSE Cardinality({i \in DOMAIN file.tests[k].results : file.tests[k].results[i] = s})

\* C1: when two submit requests against the same Test have both responded
\* successfully, the stored Test's results holds both Submissions.
C1_BothSubmissionsStored ==
    \A h1, h2 \in Reqs :
        (h1 # h2 /\ Submitted(h1) /\ Submitted(h2) /\ req[h1].id = req[h2].id)
        => LET s1 == resp[h1].body.submission
               s2 == resp[h2].body.submission
           IN /\ Stored(req[h1].id, s1) >= 1
              /\ Stored(req[h1].id, s2) >= 1
              /\ (s1 = s2 => Stored(req[h1].id, s1) >= 2)

\* C2: once a create-test request has responded 201 with an id, every get
\* request for that id received later returns that Test, never 404, when
\* the only other requests are create-test and submit requests.
C2_CreatedTestStaysReadable ==
    \A c, g \in Reqs :
        (Created(c) /\ req[g].kind = "get" /\ pc[g] = "done" /\ c \in prior[g]
            /\ req[g].id = resp[c].body.id
            /\ \A h \in Reqs : req[h].kind \in {"", "create", "submit", "get"})
        => /\ resp[g].status = 200
           /\ Meta(resp[g].body) = resp[c].body

\* The step in which a submit handler writes the file and responds.
SubmitWrites(h) == pc[h] = "w_write" /\ pc'[h] = "done" /\ req[h].kind = "submit"

FrameStep ==
    /\ \A i \in DOMAIN file.tests, j \in DOMAIN file'.tests :
          (i = FindTest(file.tests, file.tests[i].id)
              /\ j = FindTest(file'.tests, file.tests[i].id))
          => Immutable(file'.tests[j]) = Immutable(file.tests[i])
    /\ \A h \in Reqs :
          SubmitWrites(h)
          => /\ Len(file'.tests) = Len(file.tests)
             /\ \A i \in DOMAIN file.tests :
                   /\ Immutable(file'.tests[i]) = Immutable(file.tests[i])
                   /\ file.tests[i].id # req[h].id
                      => file'.tests[i].results = file.tests[i].results

\* C10, as a step property: a step changes no stored Test's id, name,
\* createdAt, sourceText or questions, and the write of a submit handler
\* changes nothing but the results of the Test it addresses.
C10_TestFrame == [][FrameStep]_vars

\* The Submitted handlers for test `id`, and the i-th of them in the order
\* in which the requests were received.
SubmittedTo(id) == {h \in Reqs : Submitted(h) /\ req[h].id = id}
NthOf(hs, i) == CHOOSE h \in hs : Cardinality({g \in hs : g <= h}) = i

\* C3: after N successful submit requests against one Test, executed one
\* after another, the Test's results has length N and holds the N
\* Submissions, as they were responded, in the order of the requests.
C3_AppendOnlyHistory ==
    \A k \in DOMAIN file.tests :
        k = FindTest(file.tests, file.tests[k].id)
        => LET hs == SubmittedTo(file.tests[k].id)
               results == file.tests[k].results
           IN /\ Len(results) = Cardinality(hs)
              /\ \A i \in DOMAIN results :
                    results[i] = resp[NthOf(hs, i)].body.submission

C3_Witness ==
    \E k \in DOMAIN file.tests :
        /\ Len(file.tests[k].results) >= 2
        /\ file.tests[k].results[1] # file.tests[k].results[2]
        /\ Quiet

\* What the caller chose, without the fields a caller may add.
Pairs(b) == [i \in DOMAIN b.answers |->
                <<b.answers[i].qId, b.answers[i].selectedIndex>>]
Flags(sub) == [i \in DOMAIN sub.answers |-> sub.answers[i].correct]

SameTest(h1, h2) == Immutable(loc[h1].test) = Immutable(loc[h2].test)

C9_IdempotentGrading ==
    \A h1, h2 \in Reqs :
        (Submitted(h1) /\ Submitted(h2) /\ SameTest(h1, h2)
            /\ req[h1].body = req[h2].body)
        => /\ resp[h1].body.submission.score = resp[h2].body.submission.score
           /\ Flags(resp[h1].body.submission) = Flags(resp[h2].body.submission)

C9_Witness ==
    \E h1, h2, h3 \in Reqs :
        /\ h1 < h2 /\ h2 < h3
        /\ Submitted(h1) /\ Submitted(h2) /\ Submitted(h3)
        /\ SameTest(h1, h2) /\ SameTest(h2, h3)
        /\ req[h1].body = req[h3].body
        /\ resp[h2].body.score # resp[h1].body.score

\* C4: every Submission has one answers entry per Question of the Test, in
\* the Test's question order, whatever the caller's answers hold.
C4_AnswerOrder ==
    \A h \in Reqs :
        Submitted(h)
        => LET answers == resp[h].body.submission.answers
               qs == loc[h].test.questions
           IN /\ Len(answers) = Len(qs)
              /\ \A i \in DOMAIN qs : answers[i].qId = qs[i].id
              /\ file.tests[1].results[Len(file.tests[1].results)].answers = answers

C4_Witness ==
    \E h \in Reqs :
        /\ Submitted(h)
        /\ Len(loc[h].test.questions) = 2
        /\ loc[h].test.questions[1].id = Q(1)
        /\ loc[h].test.questions[2].id = Q(2)
        /\ Len(req[h].body.answers) = 2
        /\ req[h].body.answers[1].qId = Q(2)
        /\ req[h].body.answers[2].qId = Q(1)

\* round(100 * c / max(1, n)) in exact arithmetic, halves rounded up.
ExactRound(c, n) == (200 * c + Max(1, n)) \div (2 * Max(1, n))

\* C6: the score of every Submission is round(100 * countCorrect /
\* max(1, questionCount)), countCorrect counting the entries marked correct.
C6_ScoreFormula ==
    \A h \in Reqs :
        Submitted(h)
        => LET sub == resp[h].body.submission
               countCorrect == Cardinality({i \in DOMAIN sub.answers : sub.answers[i].correct})
           IN sub.score = ExactRound(countCorrect, Len(loc[h].test.questions))

\* C7: for a Test with at least one question the score is an integer from
\* 0 to 100.
C7_ScoreBounds ==
    \A h \in Reqs :
        (Submitted(h) /\ Len(loc[h].test.questions) >= 1)
        => resp[h].body.submission.score \in 0..100

C7_Witness ==
    \E h \in Reqs :
        /\ Submitted(h)
        /\ Len(loc[h].test.questions) >= 3
        /\ resp[h].body.submission.score > 0
        /\ resp[h].body.submission.score < 100
        /\ resp[h].body.submission.score % 10 # 0

\* C8: a Question with no entry in the caller's answers is recorded with
\* selectedIndex -1 and correct false, whatever its stored correctIndex.
C8_NoSelection ==
    \A h \in Reqs :
        Submitted(h)
        => LET sub == resp[h].body.submission
               qs == loc[h].test.questions
               given == {req[h].body.answers[j].qId : j \in DOMAIN req[h].body.answers}
           IN \A i \in DOMAIN qs :
                 qs[i].id \notin given
                 => /\ sub.answers[i].selectedIndex = JNum(0 - 1)
                    /\ sub.answers[i].correct = FALSE

\* The step is one of handler h's.
StepOf(h) == pc'[h] # pc[h]

\* C11: a submit request whose id matches no stored Test is answered 404,
\* and no step of its handler changes the stored Tests.
C11_NotFoundStep ==
    \A h \in Reqs :
        (StepOf(h) /\ req'[h].kind = "submit" /\ req'[h].id = UnknownTestId)
        => /\ file'.tests = file.tests
           /\ pc'[h] = "done" => resp'[h] = Fail(404, "Test not found")

C11_NotFoundNoEffect == [][C11_NotFoundStep]_vars

\* A create request without a name or without a text.
InvalidCreate(r) == r.kind = "create" /\ (r.name = "" \/ r.text = "")

C12_InvalidCreateStep ==
    \A h \in Reqs :
        (pc[h] = "idle" /\ StepOf(h) /\ InvalidCreate(req'[h]))
        => /\ pc'[h] = "done"
           /\ resp'[h] = Fail(400, "name and text required")
           /\ file' = file

\* C12: a create request with a missing or empty name or text is answered
\* 400 in the step that receives it, with the file untouched; its handler
\* is never waiting for the generator or for the file.
C12_InvalidCreateRejected ==
    /\ [](\A h \in Reqs : InvalidCreate(req[h]) => pc[h] = "done" /\ resp[h].status = 400)
    /\ [][C12_InvalidCreateStep]_vars

C12_Witness ==
    \E h \in Reqs :
        /\ InvalidCreate(req[h]) /\ req[h].text = ""
        /\ pc[h] = "done"
        /\ file.tests # <<>>

\* The generator call of create handler h failed, or its text does not
\* parse to an object with a questions array.
GenerationFailed(h) ==
    /\ req[h].kind = "create"
    /\ "out" \in DOMAIN loc[h]
    /\ \/ ~loc[h].out.ok
       \/ LET parsed == SafelyParseJsonFromText(loc[h].out.text)
          IN parsed.isNull \/ parsed.kind # "object" \/ parsed.key # "questions"

C13_NoFileStepBeforeRead ==
    \A h \in Reqs :
        (StepOf(h) /\ req'[h].kind = "create" /\ pc[h] \in {"idle", "gen"})
        => file' = file

\* C13: a create request whose generator call fails, or whose text does not
\* parse to an object with a questions array, is answered 500 when the
\* generator returns; no step of the handler up to there touches the file.
C13_NoPartialCommit ==
    /\ [](\A h \in Reqs : GenerationFailed(h) => pc[h] = "done" /\ resp[h].status = 500)
    /\ [][C13_NoFileStepBeforeRead]_vars

C13_Witness ==
    \E h \in Reqs :
        /\ GenerationFailed(h)
        /\ loc[h].out = GenText(Fenced(ArrayText(<<FixtureItem>>)))
        /\ pc[h] = "done"
        /\ file.tests # <<>>

\* The text create handler h got parses to an object whose questions array
\* is empty.
EmptyGeneration(h) ==
    /\ req[h].kind = "create"
    /\ "out" \in DOMAIN loc[h]
    /\ loc[h].out.ok
    /\ HasArray(SafelyParseJsonFromText(loc[h].out.text), "questions")
    /\ SafelyParseJsonFromText(loc[h].out.text).items = <<>>

\* C14: a payload with zero questions makes create fail, and every stored
\* Test has at least one Question.
C14_EmptyGenerationFails ==
    /\ \A h \in Reqs : (EmptyGeneration(h) /\ pc[h] = "done") => resp[h].status >= 400
    /\ \A i \in DOMAIN file.tests : Len(file.tests[i].questions) >= 1

\* C15: every Question of every stored Test has a correctIndex that is an
\* index into its choices.
C15_CorrectIndexInRange ==
    \A i \in DOMAIN file.tests :
        \A j \in DOMAIN file.tests[i].questions :
            LET q == file.tests[i].questions[j]
            IN /\ IsNumber(q.correctIndex)
               /\ 0 <= q.correctIndex.v
               /\ q.correctIndex.v < Len(q.choices)

\* Create handler h has responded, and the generator's text was `text`.
CreatedFrom(h, text) ==
    /\ req[h].kind = "create" /\ pc[h] = "done"
    /\ "out" \in DOMAIN loc[h]
    /\ loc[h].out = GenText(text)

\* The stored Test written last holds exactly the one Question of the
\* fixture: prompt "Q1", two choices, correctIndex 5.
FixtureStored ==
    /\ file.tests # <<>>
    /\ LET qs == file.tests[Len(file.tests)].questions
       IN /\ Len(qs) = 1
          /\ qs[1].prompt = "Q1"
          /\ Len(qs[1].choices) = 2
          /\ qs[1].correctIndex = JNum(5)

\* C16 as first stated: for the fenced bare array holding the fixture item,
\* create succeeds and stores the one Question.
C16_BareArrayAccepted ==
    \A h \in Reqs :
        CreatedFrom(h, Fenced(ArrayText(<<FixtureItem>>)))
        => resp[h].status = 201 /\ FixtureStored

\* C16: for the fenced object {questions: [fixture item]} create succeeds
\* and stores one Question with prompt "Q1", two choices and correctIndex 5;
\* for the fenced bare array it answers 500.
C16_FencedObjectAccepted ==
    \A h \in Reqs :
        /\ CreatedFrom(h, Fenced(ObjectText("questions", <<FixtureItem>>)))
           => /\ resp[h].status = 201
              /\ resp[h].body.questionCount = 1
              /\ FixtureStored
        /\ CreatedFrom(h, Fenced(ArrayText(<<FixtureItem>>)))
           => resp[h] = Fail(500, "Invalid JSON output from model")

C16_Witness ==
    \E h \in Reqs :
        /\ CreatedFrom(h, Fenced(ObjectText("questions", <<FixtureItem>>)))
        /\ Len(file.tests) = 2
        /\ FixtureStored

\* Create handler h has stored its Test: the items of the payload it got,
\* and the Questions of the Test written last.
StoredFromPayload(h) ==
    /\ req[h].kind = "create" /\ pc[h] = "done" /\ resp[h].status = 201
    /\ file.tests # <<>>
PayloadItems(h) == SafelyParseJsonFromText(loc[h].out.text).items
StoredQuestions == file.tests[Len(file.tests)].questions

\* What C17 says of item `item` at position i (from 1) and the Question q
\* stored for it, but for the correctIndex.
NormalizedFields(item, i, q) ==
    /\ q.prompt = (IF item.prompt # "" THEN item.prompt ELSE item.question)
    /\ q.choices = (IF item.choices.present THEN item.choices.v
                    ELSE IF item.options.present THEN item.options.v ELSE <<>>)
    /\ IF item.id # NoId THEN q.id = item.id
       ELSE q.id[1] = "f" /\ q.id[3] = i - 1

C18_QuestionIdsDistinct ==
    \A i \in DOMAIN file.tests :
        \A j, k \in DOMAIN file.tests[i].questions :
            j # k => file.tests[i].questions[j].id # file.tests[i].questions[k].id

\* C19: no two stored Tests have the same id.
C19_TestIdsDistinct ==
    \A i, j \in DOMAIN file.tests : i # j => file.tests[i].id # file.tests[j].id

\* A justify request whose qIds is not a list, or is an empty list (the
\* default when it is missing).
InvalidJustify(r) == r.kind = "justify" /\ (~r.qIds.isList \/ r.qIds.v = <<>>)

C20_InvalidJustifyStep ==
    \A h \in Reqs :
        (pc[h] = "idle" /\ StepOf(h) /\ InvalidJustify(req'[h]))
        => /\ pc'[h] = "done"
           /\ resp'[h] = Fail(400, "qIds required")
           /\ file' = file /\ data' = data

\* C20: a justify request whose qIds is missing, not a list or empty is
\* answered 400 in the step that receives it; its handler never waits for
\* the file or for the generator.
C20_InvalidJustifyRejected ==
    /\ [](\A h \in Reqs : InvalidJustify(req[h])
                            => pc[h] = "done" /\ resp[h].status = 400 /\ data[h] = <<>>)
    /\ [][C20_InvalidJustifyStep]_vars

C20_Witness ==
    \E h1, h2 \in Reqs :
        /\ InvalidJustify(req[h1]) /\ req[h1].qIds.isList /\ pc[h1] = "done"
        /\ InvalidJustify(req[h2]) /\ ~req[h2].qIds.isList /\ pc[h2] = "done"
        /\ FindTest(file.tests, req[h1].id) # 0

\* Justify handler h has answered 200 with justifications.
Justified(h) == req[h].kind = "justify" /\ pc[h] = "done" /\ resp[h].status = 200

\* The stored Test a justify request addresses.
JustifiedTest(h) == file.tests[FindTest(file.tests, req[h].id)]

\* C21: stale qIds raise no error, only the Questions named in qIds are
\* sent to the generator, and every returned justification has a qId that
\* is in the request's qIds and is the id of a Question of the Test.
C21_JustificationsMatch ==
    \A h \in Reqs :
        Justified(h)
        => /\ \A i \in DOMAIN loc[h].questions :
                 \E k \in DOMAIN req[h].qIds.v : req[h].qIds.v[k] = loc[h].questions[i].id
           /\ \A i \in DOMAIN resp[h].body :
                 /\ \E k \in DOMAIN req[h].qIds.v : req[h].qIds.v[k] = resp[h].body[i].qId
                 /\ \E j \in DOMAIN JustifiedTest(h).questions :
                       JustifiedTest(h).questions[j].id = resp[h].body[i].qId

\* C23: when the request carries no contextNotes, the context sent to the
\* generator is the Test's sourceText.
C23_ContextDefault ==
    \A h \in Reqs :
        (req[h].kind = "justify" /\ req[h].notes = "" /\ "context" \in DOMAIN loc[h])
        => loc[h].context = JustifiedTest(h).sourceText

\* C24: a justify request succeeds only for a Test that has a Submission.
C24_NeedsSubmission ==
    \A h \in Reqs :
        (req[h].kind = "justify" /\ FindTest(file.tests, req[h].id) # 0
            /\ JustifiedTest(h).results = <<>>)
        => /\ pc[h] # "gen"
           /\ pc[h] = "done" => resp[h].status >= 400

C22_JustifyStep ==
    \A h \in Reqs :
        (StepOf(h) /\ req'[h].kind = "justify") => file'.tests = file.tests

\* C22: no step of a justify handler changes the stored Tests or their
\* results, whatever the outcome of the request.
C22_JustifyNeverWrites == [][C22_JustifyStep]_vars

\* C28: a Submission acknowledged for Test A is in A's stored results once
\* every other request, each a create or a submit on another Test, has
\* completed.
C28_NoInterference ==
    \A h \in Reqs :
        (/\ Submitted(h)
         /\ \A g \in Reqs \ {h} :
               \/ req[g].kind = ""
               \/ req[g].kind = "create" /\ pc[g] = "done"
               \/ req[g].kind = "submit" /\ pc[g] = "done" /\ req[g].id # req[h].id)
        => Stored(req[h].id, resp[h].body.submission) >= 1

Asked(h) ==
    /\ req[h].kind = "ask" /\ pc[h] = "done"
    /\ req[h].question.t = "string" /\ req[h].question.s # ""

\* C26: every /ask request whose question is a non-empty string is
\* answered 200 with a non-empty answer, whatever the key, the cache and the
\* outcomes of listing and generating are, and the answer is the local
\* fallback whenever the response says no model answer was obtained.
C26_AlwaysAnswered ==
    \A h \in Reqs :
        Asked(h) =>
            /\ resp[h].status = 200
            /\ Truthy(resp[h].body.answer)
            /\ resp[h].body.note =>
                   resp[h].body.answer \in
                       {TextValue(RecursionAnswer), TextValue(DefaultAnswer)}

C27_CacheInvariant == cachedSupportsGenerateContent => cachedModel # NoModel

AskReceived(h) ==
    /\ pc[h] = "idle" /\ pc'[h] # "idle"
    /\ req'[h].kind = "ask"
    /\ req'[h].question.t = "string" /\ req'[h].question.s # ""
    /\ GOOGLE_API_KEY # NoKey

C27_CacheStep ==
    \A h \in Reqs :
        /\ (AskReceived(h) /\ cachedModel # NoModel) => pc'[h] # "listing"
        /\ (AskReceived(h) /\ cachedModel = NoModel) => pc'[h] = "listing"
        /\ (pc[h] = "generating" /\ pc'[h] = "done" /\ loc'[h].s \in {401, 403, 404})
               => /\ cachedModel' = NoModel
                  /\ ~modelListAttempted'
                  /\ ~cachedSupportsGenerateContent'

\* C27: a request received while a model is cached does not list models; a
\* generateContent failure with 401, 403 or 404 leaves the cache empty
\* (no model, listing not attempted, flag false) and a request received with
\* an empty cache lists models; and the flag is never true without a cached
\* model, in every state of interleaved requests.
C27_CacheProtocol == [](C27_CacheInvariant) /\ [][C27_CacheStep]_vars

\* A request received after another one's generateContent failed with 401,
\* 403 or 404 is listing the models again.
C27_Witness ==
    \E h, g \in Reqs :
        /\ pc[h] = "done" /\ req[h].kind = "ask"
        /\ "s" \in DOMAIN loc[h] /\ loc[h].s \in {401, 403, 404}
        /\ pc[g] = "listing" /\ h \in prior[g]
        /\ cachedModel = NoModel

\* No two entries of a room's participants have ids with the same string.
C29_OnePerUser ==
    \A k \in DOMAIN RoomsFile.items :
        LET ps == RoomsFile.items[k].participants
        IN  \A i, j \in DOMAIN ps : ps[i].id.s = ps[j].id.s => i = j

JoinerIsIn(h) ==
    /\ req[h].kind = "join" /\ pc[h] = "rooms_read" /\ RoomsFile.exists
    /\ findRoom(RoomsFile.items, req[h].id) # 0
    /\ Already(RoomsFile.items[findRoom(RoomsFile.items, req[h].id)].participants,
               UserIdOf(req[h]))

C29_RejoinStep ==
    \A h \in Reqs :
        (JoinerIsIn(h) /\ StepOf(h)) =>
            /\ dataDir' = dataDir
            /\ pc'[h] = "done"
            /\ resp'[h].status = 200

Registered(h) == req[h].kind = "register" /\ pc[h] = "done" /\ resp[h].status = 201

RegistersSettled == \A g \in Reqs : pc[g] \in {"idle", "done"}

\* Every account answered with 201 is stored with its id and email once
\* every register request has completed, and no email is stored twice.
C30_DurableUnique ==
    /\ \A i, j \in DOMAIN ReadUsers : ReadUsers[i].email = ReadUsers[j].email => i = j
    /\ \A h \in Reqs :
          (Registered(h) /\ RegistersSettled) =>
              \E i \in DOMAIN ReadUsers :
                  /\ ReadUsers[i].id = resp[h].body.id
                  /\ ReadUsers[i].email = resp[h].body.email

C30_ConflictStep ==
    \A h \in Reqs :
        (/\ req[h].kind = "register" /\ pc[h] = "users_read" /\ StepOf(h)
         /\ Existing(ReadUsers, req[h].email))
        => dataDir' = dataDir /\ pc'[h] = "done" /\ resp'[h].status = 409

\* C30: a register request that finds its email stored answers 409 and
\* leaves users.json unchanged; after any interleaving of register requests
\* every request answered 201 has its user (same id and email) in
\* users.json, and no two stored users share an email.
C30_Registration == [](C30_DurableUnique) /\ [][C30_ConflictStep]_vars

Served(h) == req[h].kind = "http" /\ pc[h] = "done"

\* An API route other than /api/auth/* and /api/mock/*.
Protected(path) ==
    /\ Len(path) >= 2 /\ path[1] = "api"
    /\ ~(Len(path) >= 3 /\ path[2] \in {"auth", "mock"})

\* C25: a request to an API route other than /api/auth/* and /api/mock/*
\* without a valid Bearer token is answered 401 and neither reads nor writes
\* a data file, so the files are as they were before it.
C25_AuthRequired ==
    \A h \in Reqs :
        (Served(h) /\ Protected(req[h].path) /\ req[h].auth # "valid") =>
            /\ resp[h].status = 401
            /\ loc[h] = NoAccess
            /\ (\A g \in Reqs \ {h} : pc[g] = "idle") => dataDir = DefaultFiles

====
